---- MODULE Spec2Model ----
(***************************************************************************)
(* Liftoff baseline code generator, RISC-V back end                        *)
(* (src/unnamed/part_000 = liftoff-assembler-riscv.h).                     *)
(*                                                                         *)
(* The lowering methods are modelled as what they are: functions that      *)
(* append instructions to the assembler buffer.  The emitted instructions  *)
(* are then executed by a small machine (pc, reg, mem), so that claims     *)
(* about the behaviour of the emitted code are checked on its execution.   *)
(***************************************************************************)
EXTENDS Integers, Sequences, FiniteSets, TLC

VARIABLES
  code,           \* assembler buffer: byte offset -> emitted instruction
  pc_offset,      \* Assembler::pc_offset(): offset of the next emission
  phase,          \* position of the compilation / execution scenario
  cfg,            \* arguments and flags of the methods under way
  safepoints,     \* SafepointTableBuilder: pc offsets of defined safepoints
  tagged_slots,   \* Safepoint: DefineTaggedStackSlot indexes, in call order
  ool_spill,      \* RecordOolSpillSpaceSize: recorded bytes (-1: none)
  calls,          \* lowering calls made: <<[name, from, to, ...]>>
  pc, reg, mem,   \* the machine that executes the emitted code
  status          \* "idle" | "run" | "done" | "trap" | "stop" | "fatal"

vars == <<code, pc_offset, phase, cfg, safepoints, tagged_slots, ool_spill,
          calls, pc, reg, mem, status>>

machine == <<pc, reg, mem, status>>

-----------------------------------------------------------------------------
(* Bounds of the model.                                                    *)

\* GetTotalFrameSize() is drawn this many slots around each threshold.
FrameSpread == 1
\* Instructions in front of the prologue placeholder (frame construction).
MaxPre == 1
\* The stack pointer at function entry is drawn this many slots around
\* real stack limit + frame size.
SpSpread == 1
\* Stack parameters of the tail callee, and of the caller.
MaxParams == 3
\* Slots of the caller's frame between fp and its outgoing parameters.
MaxFrameSlots == 3
\* General-purpose and floating-point cache registers of the register lists.
NumGpCache == 2
NumFpCache == 2
\* First spill slot index handed to RecordSpillsInSafepoint.
MaxSpillOffset == 2
\* Lowering calls made in a row by the decoder.
MaxOps == 2

-----------------------------------------------------------------------------
(* Program constants.                                                      *)

kSystemPointerSize == 8
kInstrSize == 4
KB == 1024
kStackSlotSize == 8
kDoubleSize == 8
\* Offset of the real-stack-limit-address field in the instance object; the
\* source names it only, the value is immaterial to the emitted code's shape.
kRealStackLimitAddressOffset == 16

-----------------------------------------------------------------------------
(* Registers.  A register is <<class, code>>.                              *)

sp == <<"sp", 0>>
fp == <<"fp", 0>>
ra == <<"ra", 0>>
zero_reg == <<"zero", 0>>
no_reg == <<"none", 0>>
kScratchReg == <<"kScratchReg", 0>>
kWasmInstanceRegister == <<"kWasmInstanceRegister", 0>>
\* UseScratchRegisterScope::Acquire(): a temporary that is not kScratchReg.
temp == <<"temp", 0>>

-----------------------------------------------------------------------------
(* Instructions.                                                           *)

Ins(op, rd, rs1, rs2, imm, cc) ==
  [op |-> op, rd |-> rd, rs1 |-> rs1, rs2 |-> rs2, imm |-> imm, cc |-> cc]

addi(rd, rs, imm) == Ins("addi", rd, rs, no_reg, imm, "")
add(rd, rs1, rs2) == Ins("add", rd, rs1, rs2, 0, "")
li(rd, imm) == Ins("li", rd, no_reg, no_reg, imm, "")
nop == Ins("nop", no_reg, no_reg, no_reg, 0, "")
auipc(rd, imm) == Ins("auipc", rd, no_reg, no_reg, imm, "")
jr(rs, imm) == Ins("jr", no_reg, rs, no_reg, imm, "")
stop == Ins("stop", no_reg, no_reg, no_reg, 0, "")

\* MemOperand(base, offset) loads and stores.
LoadWord(rd, base, off) == Ins("LoadWord", rd, base, no_reg, off, "")
StoreWord(rs, base, off) == Ins("StoreWord", no_reg, base, rs, off, "")
LoadDouble(rd, base, off) == Ins("LoadDouble", rd, base, no_reg, off, "")
StoreDouble(rs, base, off) == Ins("StoreDouble", no_reg, base, rs, off, "")

\* A call that returns with every cache register overwritten.
Clobber == Ins("Clobber", no_reg, no_reg, no_reg, 0, "")

\* Branch(label, cond, rs, Operand(rt)); the label is resolved to its offset.
Branch(target, cond, rs, rt) == Ins("Branch", no_reg, rs, rt, target, cond)
\* Call(target, RelocInfo::WASM_STUB_CALL)
Call(stub) == Ins("Call", no_reg, no_reg, no_reg, 0, stub)

is_int12(imm) == -2048 <= imm /\ imm <= 2047

\* C++ integer division by two (rounds toward zero).
Half(imm) == IF imm >= 0 THEN imm \div 2 ELSE -((-imm) \div 2)

\* TurboAssembler::AddWord(rd, rs, Operand(imm)): one addi, two addi, or
\* li into a temporary followed by add.
AddWord(rd, rs, imm) ==
  IF is_int12(imm) THEN <<addi(rd, rs, imm)>>
  ELSE IF (-4096 <= imm /\ imm <= -2049) \/ (2048 <= imm /\ imm <= 4094)
       THEN <<addi(rd, rs, Half(imm)), addi(rd, rd, imm - Half(imm))>>
       ELSE <<li(temp, imm), add(rd, rs, temp)>>

\* Assembler::GenPCRelativeJump(rd, imm32): auipc rd, Hi20; jr rd, Lo12.
Hi20(imm32) == (imm32 + 2048) \div 4096
Lo12(imm32) == ((imm32 + 2048) % 4096) - 2048
GenPCRelativeJump(rd, imm32) == <<auipc(rd, Hi20(imm32)), jr(rd, Lo12(imm32))>>

\* The buffer with the instructions of seq written from offset at.
Place(buf, at, seq) ==
  LET offs == {at + kInstrSize * (i - 1) : i \in 1..Len(seq)}
  IN [o \in DOMAIN buf \cup offs |->
        IF o \in offs THEN seq[((o - at) \div kInstrSize) + 1] ELSE buf[o]]

EmptyBuffer == [o \in {} |-> nop]

-----------------------------------------------------------------------------
(* Execution of one emitted instruction.                                   *)

Cond(cc, a, b) ==
  CASE cc = "eq" -> a = b
    [] cc = "ne" -> a # b
    [] cc = "uge" -> a >= b
    [] cc = "ugt" -> a > b
    [] cc = "ule" -> a <= b
    [] cc = "ult" -> a < b
    [] OTHER -> FALSE

\* The machine after executing instruction i at m.pc.
Exec(i, m) ==
  LET next == m.pc + kInstrSize
      r == m.reg
  IN CASE i.op = "nop" -> [m EXCEPT !.pc = next]
       [] i.op = "addi" ->
            [m EXCEPT !.pc = next, !.reg = [r EXCEPT ![i.rd] = r[i.rs1] + i.imm]]
       [] i.op = "add" ->
            [m EXCEPT !.pc = next, !.reg = [r EXCEPT ![i.rd] = r[i.rs1] + r[i.rs2]]]
       [] i.op = "li" ->
            [m EXCEPT !.pc = next, !.reg = [r EXCEPT ![i.rd] = i.imm]]
       [] i.op = "auipc" ->
            [m EXCEPT !.pc = next, !.reg = [r EXCEPT ![i.rd] = m.pc + i.imm * 4096]]
       [] i.op = "jr" -> [m EXCEPT !.pc = r[i.rs1] + i.imm]
       [] i.op \in {"LoadWord", "LoadDouble"} ->
            [m EXCEPT !.pc = next,
                      !.reg = [r EXCEPT ![i.rd] = m.mem[r[i.rs1] + i.imm]]]
       [] i.op \in {"StoreWord", "StoreDouble"} ->
            [m EXCEPT !.pc = next,
                      !.mem = [m.mem EXCEPT ![r[i.rs1] + i.imm] = r[i.rs2]]]
       [] i.op = "Branch" ->
            [m EXCEPT !.pc = IF Cond(i.cc, r[i.rs1], r[i.rs2]) THEN i.imm ELSE next]
       [] i.op = "Clobber" ->
            [m EXCEPT !.pc = next,
                      !.reg = [q \in DOMAIN r |->
                                 IF q[1] \in {"x", "f"} THEN -1 ELSE r[q]]]
       [] i.op = "Call" -> [m EXCEPT !.status = "trap"]
       [] i.op = "stop" -> [m EXCEPT !.status = "stop"]
       [] OTHER -> [m EXCEPT !.pc = next]

\* One instruction of the emitted code runs; the run is done when control
\* reaches cfg.exit.
Step ==
  /\ status = "run"
  /\ IF pc = cfg.exit
     THEN /\ status' = "done"
          /\ UNCHANGED <<pc, reg, mem>>
     ELSE /\ pc \in DOMAIN code
          /\ LET m == Exec(code[pc], [pc |-> pc, reg |-> reg, mem |-> mem,
                                      status |-> status])
             IN /\ pc' = m.pc
                /\ reg' = m.reg
                /\ mem' = m.mem
                /\ status' = m.status
  /\ UNCHANGED <<code, pc_offset, phase, cfg, safepoints, tagged_slots,
                 ool_spill, calls>>

-----------------------------------------------------------------------------
(* Stack frame manager: PrepareStackFrame / PatchPrepareStackFrame.        *)

\* v8_flags.stack_size, in KB.
StackSizes == {4, 8}

\* GetTotalFrameSize() of the compiled function: around the immediate range
\* of addi, the 4 KB threshold and the configured stack size.
FrameTotals(stack_size) ==
  {b + 2 * kSystemPointerSize + kSystemPointerSize * d :
     b \in {kSystemPointerSize, 2 * KB, 4 * KB, stack_size * KB},
     d \in (-FrameSpread)..FrameSpread}

\* Size in bytes of the function body emitted after the placeholder (at
\* least the return), so that the jump distances cross the 12-bit range.
BodySizes == {kInstrSize, 2032, 2036, 4096}

RealStackLimit == 64 * KB
InstanceAddress == 128

InitFrame ==
  /\ \E pre \in 0..MaxPre, ss \in StackSizes, dc \in BOOLEAN :
       /\ pc_offset = pre * kInstrSize
       /\ cfg = [stack_size |-> ss, debug_code |-> dc, offset |-> -1,
                 total |-> 0, exit |-> -1, sp0 |-> 0]
  /\ code = EmptyBuffer
  /\ phase = "start"
  /\ safepoints = <<>>
  /\ tagged_slots = <<>>
  /\ ool_spill = -1
  /\ calls = <<>>
  /\ pc = 0
  /\ reg = [r \in {sp, kScratchReg, kWasmInstanceRegister, temp} |-> 0]
  /\ mem = [a \in {} |-> 0]
  /\ status = "idle"

\* Mutant: a single instruction is reserved.
PlaceholderOne == <<addi(sp, sp, 0)>>

\* int LiftoffAssembler::PrepareStackFrame(): three placeholder instructions.
Placeholder == <<addi(sp, sp, 0), nop, nop>>

PrepareStackFrame ==
  /\ phase = "start"
  /\ code' = Place(code, pc_offset, Placeholder)
  /\ pc_offset' = pc_offset + kInstrSize * Len(Placeholder)
  /\ cfg' = [cfg EXCEPT !.offset = pc_offset,
                        !.exit = pc_offset + kInstrSize * Len(Placeholder)]
  /\ phase' = "body"
  /\ UNCHANGED <<safepoints, tagged_slots, ool_spill, calls, machine>>

\* The rest of the function is compiled; the frame size is known afterwards.
CompileBody ==
  /\ phase = "body"
  /\ \E body \in BodySizes, total \in FrameTotals(cfg.stack_size) :
       /\ pc_offset' = pc_offset + body
       /\ cfg' = [cfg EXCEPT !.total = total]
  /\ phase' = "patch"
  /\ UNCHANGED <<code, safepoints, tagged_slots, ool_spill, calls, machine>>

\* int frame_size = GetTotalFrameSize() - 2 * kSystemPointerSize;
FrameSize(total) == total - 2 * kSystemPointerSize

\* Mutant: the threshold taken inclusive.
IsSmallFrameInclusive(frame_size) == frame_size <= 4 * KB

\* if (V8_LIKELY(frame_size < 4 * KB))
IsSmallFrame(frame_size) == frame_size < 4 * KB

\* Mutant: a frame as large as the stack is still compared with the limit.
FitsStackInclusive(frame_size, stack_size) == frame_size <= stack_size * 1024

\* if (frame_size < v8_flags.stack_size * 1024)
FitsStack(frame_size, stack_size) == frame_size < stack_size * 1024

\* Mutant: the frame size is not added to the limit before the comparison.
StackLimitCheckNoAdd(frame_size, continuation) ==
  <<LoadWord(kScratchReg, kWasmInstanceRegister, kRealStackLimitAddressOffset),
    LoadWord(kScratchReg, kScratchReg, 0)>>
  \o [k \in 1..Len(AddWord(kScratchReg, kScratchReg, frame_size)) |-> nop]
  \o <<Branch(continuation, "uge", sp, kScratchReg)>>

\* The limit check of the out-of-line code, branching to continuation.
StackLimitCheck(frame_size, continuation) ==
  <<LoadWord(kScratchReg, kWasmInstanceRegister, kRealStackLimitAddressOffset),
    LoadWord(kScratchReg, kScratchReg, 0)>>
  \o AddWord(kScratchReg, kScratchReg, frame_size)
  \o <<Branch(continuation, "uge", sp, kScratchReg)>>

\* Number of instructions of the limit check.
StackLimitCheckLen(frame_size) == 3 + Len(AddWord(kScratchReg, kScratchReg, frame_size))

\* Mutant: the jump back lands one instruction early.
FuncStartOffsetEarly(offset) == offset + 1 * kInstrSize

\* int func_start_offset = offset + 2 * kInstrSize;
FuncStartOffset(offset) == offset + 2 * kInstrSize

\* The out-of-line code of a large frame, emitted from offset start.
LargeFrameCode(start, offset, frame_size, stack_size, debug_code) ==
  LET nCheck == IF FitsStack(frame_size, stack_size)
                THEN StackLimitCheckLen(frame_size) ELSE 0
      nTrap == 1 + (IF debug_code THEN 1 ELSE 0)
      continuation == start + kInstrSize * (nCheck + nTrap)
      check == IF FitsStack(frame_size, stack_size)
               THEN StackLimitCheck(frame_size, continuation) ELSE <<>>
      trap == <<Call("kWasmStackOverflow")>>
              \o (IF debug_code THEN <<stop>> ELSE <<>>)
      alloc == AddWord(sp, sp, -frame_size)
      back == continuation + kInstrSize * Len(alloc)
  IN [seq |-> check \o trap \o alloc
                \o GenPCRelativeJump(kScratchReg, FuncStartOffset(offset) - back),
      safepoint |-> start + kInstrSize * (nCheck + 1),
      continuation |-> continuation]

PatchPrepareStackFrame ==
  /\ phase = "patch"
  /\ LET offset == cfg.offset
         frame_size == FrameSize(cfg.total)
     IN IF IsSmallFrame(frame_size)
        THEN /\ code' = Place(code, offset, AddWord(sp, sp, -frame_size))
             /\ UNCHANGED <<pc_offset, safepoints>>
        ELSE LET ool == LargeFrameCode(pc_offset, offset, frame_size,
                                       cfg.stack_size, cfg.debug_code)
             IN /\ code' = Place(Place(code, offset,
                                       GenPCRelativeJump(kScratchReg, pc_offset - offset)),
                                 pc_offset, ool.seq)
                /\ pc_offset' = pc_offset + kInstrSize * Len(ool.seq)
                /\ safepoints' = Append(safepoints, ool.safepoint)
  /\ phase' = "enter"
  /\ UNCHANGED <<cfg, tagged_slots, ool_spill, calls, machine>>

\* The function is called: control arrives at the patched prologue.
EnterFunction ==
  /\ phase = "enter"
  /\ \E d \in (-SpSpread)..SpSpread :
       LET sp0 == RealStackLimit + FrameSize(cfg.total) + kSystemPointerSize * d
       IN /\ reg' = [reg EXCEPT ![sp] = sp0, ![kWasmInstanceRegister] = InstanceAddress]
          /\ cfg' = [cfg EXCEPT !.sp0 = sp0]
  /\ mem' = (InstanceAddress + kRealStackLimitAddressOffset :> 2 * InstanceAddress)
            @@ (2 * InstanceAddress :> RealStackLimit)
  /\ pc' = cfg.offset
  /\ status' = "run"
  /\ phase' = "run"
  /\ UNCHANGED <<code, pc_offset, safepoints, tagged_slots, ool_spill, calls>>

NextFrame ==
  \/ PrepareStackFrame
  \/ CompileBody
  \/ PatchPrepareStackFrame
  \/ EnterFunction
  \/ Step

SpecFrame == InitFrame /\ [][NextFrame]_vars

-----------------------------------------------------------------------------
(* Claims about the stack frame manager (checked under SpecFrame).         *)

Patched == phase \in {"enter", "run"}

\* The instructions at the prologue offset subtract the frame size from sp
\* directly (one addi, or the two addi of a 12-bit overflow).
DirectSubtract ==
  LET o == cfg.offset
      fs == cfg.total - 2 * kSystemPointerSize
      first == code[o]
      second == code[o + kInstrSize]
  IN /\ first.op = "addi" /\ first.rd = sp /\ first.rs1 = sp
     /\ \/ first.imm = -fs
        \/ /\ second.op = "addi" /\ second.rd = sp /\ second.rs1 = sp
           /\ first.imm + second.imm = -fs

\* The instructions at the prologue offset jump to the out-of-line code,
\* which starts at the offset the body ended at.
JumpToOol ==
  LET o == cfg.offset
  IN /\ code[o].op = "auipc" /\ code[o + kInstrSize].op = "jr"
     /\ code[o + kInstrSize].rs1 = code[o].rd
     /\ o + 4096 * code[o].imm + code[o + kInstrSize].imm \in DOMAIN code
     /\ o + 4096 * code[o].imm + code[o + kInstrSize].imm > cfg.exit

LargeFrame == Patched /\ JumpToOol

\* C1 (as claimed): the direct subtract is patched if and only if
\* GetTotalFrameSize() is strictly below 4 KiB; a total frame size of exactly
\* 4096 bytes takes the large-frame path.
C1_TotalBelow4K ==
  Patched => (DirectSubtract <=> cfg.total < 4 * KB) /\ (DirectSubtract <=> ~JumpToOol)

\* C1 (amended): the direct subtract is patched if and only if frame_size =
\* GetTotalFrameSize() - 2 * kSystemPointerSize is strictly below 4 KiB;
\* otherwise, in particular when frame_size is exactly 4096, the prologue is
\* patched with the jump to the out-of-line stack check.
C1_FrameSizeBelow4K ==
  Patched =>
    /\ DirectSubtract <=> cfg.total - 2 * kSystemPointerSize < 4 * KB
    /\ DirectSubtract <=> ~JumpToOol

C1_Witness ==
  Patched /\ cfg.total - 2 * kSystemPointerSize = 4 * KB /\ JumpToOol /\ ~DirectSubtract

\* C2: in the large-frame path sp is decremented by the frame size only
\* after sp >= real stack limit + frame size has been found to hold; when it
\* does not hold the stack-overflow trap is called and sp is never
\* decremented.
C2_CheckBeforeAllocate ==
  LET fs == cfg.total - 2 * kSystemPointerSize
      passes == cfg.sp0 >= RealStackLimit + fs
  IN (phase = "run" /\ LargeFrame) =>
       /\ reg[sp] # cfg.sp0 => passes
       /\ status = "done" => passes /\ reg[sp] = cfg.sp0 - fs
       /\ status \in {"trap", "stop"} => reg[sp] = cfg.sp0
       /\ (status \in {"trap", "stop"} /\ fs < cfg.stack_size * 1024) => ~passes
       /\ (~passes /\ pc >= cfg.exit /\ status = "run") =>
            /\ pc \in DOMAIN code
            /\ code[pc].op \in {"LoadWord", "addi", "li", "add", "Branch", "Call"}
            /\ code[pc].rd # sp

C2_Witness ==
  /\ phase = "run" /\ LargeFrame /\ status = "done"
  /\ cfg.total - 2 * kSystemPointerSize >= 4 * KB
  /\ reg[sp] = cfg.sp0 - (cfg.total - 2 * kSystemPointerSize)

\* The trap of the large-frame path is reached too, with sp untouched.
C2_TrapReached ==
  /\ phase = "run" /\ LargeFrame /\ status = "trap"
  /\ cfg.total - 2 * kSystemPointerSize < cfg.stack_size * 1024
  /\ reg[sp] = cfg.sp0

\* The final jump of the out-of-line code is being executed.
JumpBack ==
  /\ phase = "run" /\ status = "run" /\ LargeFrame
  /\ pc \in DOMAIN code /\ pc > cfg.exit
  /\ code[pc].op = "jr"

-----------------------------------------------------------------------------
(* Tail-call frame shift: PrepareTailCall.                                 *)

\* TurboAssembler::Push(src)
Push(src) == AddWord(sp, sp, -kSystemPointerSize) \o <<StoreWord(src, sp, 0)>>

\* TurboAssembler::Pop(src1, src2): pops src2 first, from the lower address.
Pop2(src1, src2) ==
  <<LoadWord(src2, sp, 0 * kSystemPointerSize),
    LoadWord(src1, sp, 1 * kSystemPointerSize)>>
  \o AddWord(sp, sp, 2 * kSystemPointerSize)

\* fp-8 holds the stack marker, fp-16 is the instance parameter.
MinFrameSlots == 2

\* Address of the frame pointer when the emitted code starts.
FrameBase == 8 * KB

\* The word a stack slot holds before the emitted code runs: distinct per slot.
Mem0(a) == a + 1

\* The stack when PrepareTailCall's code starts: the caller's frame below
\* fp, then the callee's num_callee_stack_params parameters down to sp.
\* stack_param_delta is the callee's parameter slots minus the caller's.
InitTail ==
  /\ \E n \in 0..MaxParams, caller \in 0..MaxParams,
        f \in MinFrameSlots..MaxFrameSlots :
       LET sp0 == FrameBase - (f + n) * kSystemPointerSize
       IN /\ cfg = [num_callee_stack_params |-> n, stack_param_delta |-> n - caller,
                    frame_slots |-> f, sp0 |-> sp0, loop |-> -1, exit |-> -1]
          /\ reg = (sp :> sp0) @@ (fp :> FrameBase) @@ (ra :> 0) @@ (temp :> 0)
          /\ mem = [a \in {sp0 + kSystemPointerSize * k :
                             k \in (-2)..(f + n + caller + 2)} |-> Mem0(a)]
  /\ code = EmptyBuffer
  /\ pc_offset = 0
  /\ phase = "start"
  /\ safepoints = <<>>
  /\ tagged_slots = <<>>
  /\ ool_spill = -1
  /\ calls = <<>>
  /\ pc = 0
  /\ status = "idle"

\* Mutant: the slots are copied in ascending order.
TailCallSlotOrderAscending(slot_count) == [k \in 1..slot_count |-> k - 1]

\* for (int i = slot_count - 1; i >= 0; --i)
TailCallSlotOrder(slot_count) == [k \in 1..slot_count |-> slot_count - k]

\* The copy of slot i: load from sp + i, store to fp + (i - stack_param_delta).
TailCallCopy(i, stack_param_delta) ==
  <<LoadWord(temp, sp, i * kSystemPointerSize),
    StoreWord(temp, fp, (i - stack_param_delta) * kSystemPointerSize)>>

RECURSIVE TailCallLoop(_, _)
TailCallLoop(order, stack_param_delta) ==
  IF order = <<>> THEN <<>>
  ELSE TailCallCopy(Head(order), stack_param_delta)
       \o TailCallLoop(Tail(order), stack_param_delta)

\* Push the return address and frame pointer to complete the stack frame.
TailCallPushes ==
  <<LoadWord(temp, fp, kSystemPointerSize)>> \o Push(temp)
  \o <<LoadWord(temp, fp, 0)>> \o Push(temp)

\* Mutant: the parameter delta is added with the wrong sign.
TailCallRebasePlus(stack_param_delta) ==
  AddWord(sp, fp, stack_param_delta * kSystemPointerSize) \o Pop2(ra, fp)

\* Set the new stack and frame pointer.
TailCallRebase(stack_param_delta) ==
  AddWord(sp, fp, -stack_param_delta * kSystemPointerSize) \o Pop2(ra, fp)

PrepareTailCall ==
  /\ phase = "start"
  /\ LET n == cfg.num_callee_stack_params
         delta == cfg.stack_param_delta
         slot_count == n + 2
         loop == TailCallLoop(TailCallSlotOrder(slot_count), delta)
         seq == TailCallPushes \o loop \o TailCallRebase(delta)
     IN /\ code' = Place(code, pc_offset, seq)
        /\ pc_offset' = pc_offset + kInstrSize * Len(seq)
        /\ cfg' = [cfg EXCEPT !.loop = pc_offset + kInstrSize * Len(TailCallPushes),
                              !.exit = pc_offset + kInstrSize * Len(seq)]
  /\ phase' = "emitted"
  /\ UNCHANGED <<safepoints, tagged_slots, ool_spill, calls, machine>>

\* The emitted code is run from its first instruction.
RunEmitted ==
  /\ phase = "emitted"
  /\ phase' = "run"
  /\ status' = "run"
  /\ pc' = 0
  /\ UNCHANGED <<code, pc_offset, cfg, safepoints, tagged_slots, ool_spill,
                 calls, reg, mem>>

NextTail ==
  \/ PrepareTailCall
  \/ RunEmitted
  \/ Step

SpecTail == InitTail /\ [][NextTail]_vars

-----------------------------------------------------------------------------
(* Claims about PrepareTailCall (checked under SpecTail).                  *)

\* sp while the copy loop runs: the two pushes below the initial sp.
TailLoopSp == cfg.sp0 - 2 * kSystemPointerSize

\* What source slot sp + i holds when the loop starts: the pushed frame
\* pointer and return address, then the callee's parameters.
TailSource(i) ==
  IF i = 0 THEN Mem0(FrameBase)
  ELSE IF i = 1 THEN Mem0(FrameBase + kSystemPointerSize)
  ELSE Mem0(TailLoopSp + i * kSystemPointerSize)

\* Source and destination ranges of the copy overlap.
TailOverlap ==
  LET n == cfg.num_callee_stack_params
      dstLo == FrameBase - cfg.stack_param_delta * kSystemPointerSize
  IN /\ dstLo < TailLoopSp + (n + 2) * kSystemPointerSize
     /\ TailLoopSp < dstLo + (n + 2) * kSystemPointerSize

\* C4: after the copy loop every destination slot fp + (i - delta) holds
\* what source slot sp + i held when the loop started, and until slot i has
\* been read by the loop it still holds that value, also when the ranges
\* overlap.
C4_TailCallCopyIntact ==
  LET n == cfg.num_callee_stack_params
      delta == cfg.stack_param_delta
      loadAt(i) == cfg.loop + 2 * kInstrSize * ((n + 1) - i)
  IN phase = "run" =>
       \A i \in 0..(n + 1) :
         /\ (cfg.loop <= pc /\ pc <= loadAt(i)) =>
              mem[TailLoopSp + i * kSystemPointerSize] = TailSource(i)
         /\ (pc >= cfg.loop + 2 * kInstrSize * (n + 2)) =>
              mem[FrameBase + (i - delta) * kSystemPointerSize] = TailSource(i)

C4_Witness ==
  /\ phase = "run" /\ status = "done" /\ TailOverlap
  /\ cfg.num_callee_stack_params >= 2
  /\ \A i \in 0..(cfg.num_callee_stack_params + 1) :
       mem[FrameBase + (i - cfg.stack_param_delta) * kSystemPointerSize] = TailSource(i)

-----------------------------------------------------------------------------
(* Register save/restore manager: PushRegisters, PopRegisters,             *)
(* RecordSpillsInSafepoint.                                                *)

\* kGpCacheRegList and kFpCacheRegList: a LiftoffRegister is <<class, code>>.
kGpCacheRegList == {<<"x", i>> : i \in 1..NumGpCache}
kFpCacheRegList == {<<"f", i>> : i \in 1..NumFpCache}

\* Order of the liftoff codes: general-purpose before floating-point.
RegBefore(a, b) ==
  \/ a[1] = "x" /\ b[1] = "f"
  \/ a[1] = b[1] /\ a[2] < b[2]

\* LiftoffRegList::GetFirstRegSet / GetLastRegSet
GetFirstRegSet(list) == CHOOSE a \in list : \A b \in list \ {a} : RegBefore(a, b)
GetLastRegSet(list) == CHOOSE a \in list : \A b \in list \ {a} : RegBefore(b, a)

\* LiftoffRegList::GetNumRegsSet
GetNumRegsSet(list) == Cardinality(list)

\* Mutant: the offset is decremented after the store instead of before it.
RECURSIVE PushGpStoresLate(_, _)
PushGpStoresLate(gp_regs, offset) ==
  IF gp_regs = {} THEN <<>>
  ELSE LET r == GetFirstRegSet(gp_regs)
       IN <<StoreWord(r, sp, offset)>>
          \o PushGpStoresLate(gp_regs \ {r}, offset - kSystemPointerSize)

\* while (!gp_regs.is_empty()): offset -= kSystemPointerSize; StoreWord(...)
RECURSIVE PushGpStores(_, _)
PushGpStores(gp_regs, offset) ==
  IF gp_regs = {} THEN <<>>
  ELSE LET r == GetFirstRegSet(gp_regs)
           o == offset - kSystemPointerSize
       IN <<StoreWord(r, sp, o)>> \o PushGpStores(gp_regs \ {r}, o)

\* while (!fp_regs.is_empty()): StoreDouble(...); offset += sizeof(double)
RECURSIVE PushFpStores(_, _)
PushFpStores(fp_regs, offset) ==
  IF fp_regs = {} THEN <<>>
  ELSE LET r == GetFirstRegSet(fp_regs)
       IN <<StoreDouble(r, sp, offset)>>
          \o PushFpStores(fp_regs \ {r}, offset + kDoubleSize)

\* The instructions of PushRegisters(regs).
PushRegistersCode(regs) ==
  LET gp_regs == regs \cap kGpCacheRegList
      num_gp_regs == GetNumRegsSet(gp_regs)
      fp_regs == regs \cap kFpCacheRegList
      num_fp_regs == GetNumRegsSet(fp_regs)
  IN (IF num_gp_regs # 0
      THEN AddWord(sp, sp, -(num_gp_regs * kSystemPointerSize))
           \o PushGpStores(gp_regs, num_gp_regs * kSystemPointerSize)
      ELSE <<>>)
     \o (IF num_fp_regs # 0
         THEN AddWord(sp, sp, -(num_fp_regs * kStackSlotSize))
              \o PushFpStores(fp_regs, 0)
         ELSE <<>>)

\* while (!fp_regs.is_empty()): LoadDouble(...); fp_offset += sizeof(double)
RECURSIVE PopFpLoads(_, _)
PopFpLoads(fp_regs, fp_offset) ==
  IF fp_regs = {} THEN <<>>
  ELSE LET r == GetFirstRegSet(fp_regs)
       IN <<LoadDouble(r, sp, fp_offset)>>
          \o PopFpLoads(fp_regs \ {r}, fp_offset + kDoubleSize)

\* Mutant: the sp adjustment after the floating-point loads is left out.
PopFpAdjustMissing(fp_offset) == <<>>

\* if (fp_offset) AddWord(sp, sp, Operand(fp_offset));
PopFpAdjust(fp_offset) ==
  IF fp_offset # 0 THEN AddWord(sp, sp, fp_offset) ELSE <<>>

\* Mutant: the general-purpose registers are popped first-set first.
PopGpPickFirst(gp_regs) == GetFirstRegSet(gp_regs)

\* LiftoffRegister reg = gp_regs.GetLastRegSet();
PopGpPick(gp_regs) == GetLastRegSet(gp_regs)

\* while (!gp_regs.is_empty()): LoadWord(...); gp_offset += kSystemPointerSize
RECURSIVE PopGpLoads(_, _)
PopGpLoads(gp_regs, gp_offset) ==
  IF gp_regs = {} THEN <<>>
  ELSE LET r == PopGpPick(gp_regs)
       IN <<LoadWord(r, sp, gp_offset)>>
          \o PopGpLoads(gp_regs \ {r}, gp_offset + kSystemPointerSize)

\* The instructions of PopRegisters(regs).
PopRegistersCode(regs) ==
  LET fp_regs == regs \cap kFpCacheRegList
      gp_regs == regs \cap kGpCacheRegList
  IN PopFpLoads(fp_regs, 0)
     \o PopFpAdjust(GetNumRegsSet(fp_regs) * kDoubleSize)
     \o PopGpLoads(gp_regs, 0)
     \o AddWord(sp, sp, GetNumRegsSet(gp_regs) * kSystemPointerSize)

\* What a cache register holds before the save: distinct per register.
Reg0(r) == (IF r[1] = "x" THEN 100 ELSE 200) + r[2]

\* Address of the stack pointer before the save.
SaveBase == 1 * KB

InitRegs ==
  /\ \E regs \in SUBSET (kGpCacheRegList \cup kFpCacheRegList) :
       cfg = [regs |-> regs, sp0 |-> SaveBase, exit |-> -1,
              all_spills |-> {}, ref_spills |-> {}, spill_offset |-> 0]
  /\ reg = [r \in {sp, temp} \cup kGpCacheRegList \cup kFpCacheRegList |->
              IF r = sp THEN SaveBase ELSE IF r = temp THEN 0 ELSE Reg0(r)]
  /\ mem = [a \in {SaveBase - kSystemPointerSize * k :
                     k \in 0..(NumGpCache + NumFpCache)} |-> 0]
  /\ code = EmptyBuffer
  /\ pc_offset = 0
  /\ phase = "start"
  /\ safepoints = <<>>
  /\ tagged_slots = <<>>
  /\ ool_spill = -1
  /\ calls = <<>>
  /\ pc = 0
  /\ status = "idle"

\* A lowering call appends its instructions and is recorded with its range
\* and its condition or immediate argument.
LowerWith(name, cond, imm, seq, then) ==
  /\ code' = Place(code, pc_offset, seq)
  /\ pc_offset' = pc_offset + kInstrSize * Len(seq)
  /\ calls' = Append(calls, [name |-> name, from |-> pc_offset,
                             to |-> pc_offset + kInstrSize * Len(seq),
                             cond |-> cond, imm |-> imm])
  /\ phase' = then

Lower(name, seq, then) == LowerWith(name, "", 0, seq, then)

PushRegisters ==
  /\ phase = "start"
  /\ Lower("PushRegisters", PushRegistersCode(cfg.regs), "pushed")
  /\ UNCHANGED <<cfg, safepoints, tagged_slots, ool_spill, machine>>

\* The call the registers are saved around.
CallBetween ==
  /\ phase = "pushed"
  /\ Lower("Call", <<Clobber>>, "called")
  /\ UNCHANGED <<cfg, safepoints, tagged_slots, ool_spill, machine>>

PopRegisters ==
  /\ phase = "called"
  /\ Lower("PopRegisters", PopRegistersCode(cfg.regs), "emitted")
  /\ cfg' = [cfg EXCEPT !.exit = pc_offset + kInstrSize * Len(PopRegistersCode(cfg.regs))]
  /\ UNCHANGED <<safepoints, tagged_slots, ool_spill, machine>>

\* Mutant: the slot index advances only past registers holding references.
RECURSIVE RecordSpillsLoopSkipping(_, _, _)
RecordSpillsLoopSkipping(all_spills, ref_spills, spill_offset) ==
  IF all_spills = {} THEN [slots |-> <<>>, size |-> 0]
  ELSE LET r == GetFirstRegSet(all_spills)
           rest == RecordSpillsLoopSkipping(all_spills \ {r}, ref_spills,
                     IF r \in ref_spills THEN spill_offset + 1 ELSE spill_offset)
       IN [slots |-> (IF r \in ref_spills THEN <<spill_offset>> ELSE <<>>)
                     \o rest.slots,
           size |-> kSystemPointerSize + rest.size]

\* The loop of RecordSpillsInSafepoint: the slot indexes defined, in order,
\* and the spill space counted.
RECURSIVE RecordSpillsLoop(_, _, _)
RecordSpillsLoop(all_spills, ref_spills, spill_offset) ==
  IF all_spills = {} THEN [slots |-> <<>>, size |-> 0]
  ELSE LET r == GetFirstRegSet(all_spills)
           rest == RecordSpillsLoop(all_spills \ {r}, ref_spills, spill_offset + 1)
       IN [slots |-> (IF r \in ref_spills THEN <<spill_offset>> ELSE <<>>)
                     \o rest.slots,
           size |-> kSystemPointerSize + rest.size]

RecordSpillsInSafepoint ==
  /\ phase = "start"
  /\ \E all_spills \in SUBSET kGpCacheRegList,
        ref_spills \in SUBSET kGpCacheRegList,
        spill_offset \in 0..MaxSpillOffset :
       LET done == RecordSpillsLoop(all_spills, ref_spills, spill_offset)
       IN /\ tagged_slots' = tagged_slots \o done.slots
          /\ ool_spill' = done.size
          /\ cfg' = [cfg EXCEPT !.all_spills = all_spills,
                                !.ref_spills = ref_spills,
                                !.spill_offset = spill_offset]
  /\ phase' = "recorded"
  /\ UNCHANGED <<code, pc_offset, safepoints, calls, machine>>

NextRegs ==
  \/ PushRegisters
  \/ CallBetween
  \/ PopRegisters
  \/ RecordSpillsInSafepoint
  \/ RunEmitted
  \/ Step

SpecRegs == InitRegs /\ [][NextRegs]_vars

-----------------------------------------------------------------------------
(* Claims about the register save/restore manager (checked under SpecRegs).*)

\* The recorded call of the lowering method name (the first one).
CallOf(name) == CHOOSE c \in {calls[k] : k \in DOMAIN calls} : c.name = name
Called(name) == \E k \in DOMAIN calls : calls[k].name = name

\* The instructions a recorded call emitted, in emission order.
Emitted(c) == [k \in 1..((c.to - c.from) \div kInstrSize) |->
                 code[c.from + kInstrSize * (k - 1)]]

SavedGp == cfg.regs \cap kGpCacheRegList
SavedFp == cfg.regs \cap kFpCacheRegList

\* Bytes PushRegisters(regs) takes from the stack.
SavedBytes ==
  Cardinality(SavedGp) * kSystemPointerSize + Cardinality(SavedFp) * kStackSlotSize

\* C5: the net sp change of PushRegisters(regs) is the exact negative of the
\* net sp change of PopRegisters(regs), for every register set including
\* those with an empty subset: sp is lower by the saved bytes where the pop
\* code starts, and back at its initial value where the pop code ends.
C5_PushPopBalanced ==
  (phase = "run" /\ status \in {"run", "done"}) =>
    /\ pc = CallOf("PopRegisters").from => reg[sp] = cfg.sp0 - SavedBytes
    /\ pc = CallOf("Call").from => reg[sp] = cfg.sp0 - SavedBytes
    /\ status = "done" => reg[sp] = cfg.sp0

C5_Witness ==
  /\ phase = "run" /\ status = "done" /\ reg[sp] = cfg.sp0
  /\ SavedGp = {} /\ Cardinality(SavedFp) = NumFpCache

\* C6: PopRegisters(regs) after PushRegisters(regs) restores every register
\* of regs to the value PushRegisters stored for it, although every cache
\* register was overwritten in between.
C6_PopRestoresPushed ==
  /\ (phase = "run" /\ status = "run" /\ pc = CallOf("PopRegisters").from) =>
       \A r \in cfg.regs : reg[r] = -1
  /\ (phase = "run" /\ status = "done") =>
       \A r \in cfg.regs : reg[r] = Reg0(r)

C6_Witness ==
  /\ phase = "run" /\ status = "done"
  /\ cfg.regs = kGpCacheRegList \cup kFpCacheRegList
  /\ \A r \in cfg.regs : reg[r] = Reg0(r)
  /\ \A r \in cfg.regs : \E a \in DOMAIN mem : mem[a] = Reg0(r)

\* The sp adjustments and the stores among the instructions of a call.
Adjusts(seq) == SelectSeq(seq, LAMBDA i : i.rd = sp)
Stores(seq, op) == SelectSeq(seq, LAMBDA i : i.op = op)
StrictlyDescending(seq) ==
  \A k \in 1..(Len(seq) - 1) : seq[k].imm > seq[k + 1].imm
StrictlyAscending(seq) ==
  \A k \in 1..(Len(seq) - 1) : seq[k].imm < seq[k + 1].imm

\* PushRegisters emitted, per non-empty subset, one sp adjustment followed
\* by one store per register, general-purpose subset first; nothing for an
\* empty subset.
PushShape ==
  LET seq == Emitted(CallOf("PushRegisters"))
      ngp == Cardinality(SavedGp)
      nfp == Cardinality(SavedFp)
      g == IF ngp = 0 THEN 0 ELSE 1 + ngp
  IN /\ Len(seq) = g + (IF nfp = 0 THEN 0 ELSE 1 + nfp)
     /\ Len(Adjusts(seq)) = (IF ngp = 0 THEN 0 ELSE 1) + (IF nfp = 0 THEN 0 ELSE 1)
     /\ ngp # 0 => /\ seq[1] = addi(sp, sp, -(ngp * kSystemPointerSize))
                   /\ \A k \in 2..g : seq[k].op = "StoreWord" /\ seq[k].rs1 = sp
                   /\ {seq[k].rs2 : k \in 2..g} = SavedGp
     /\ nfp # 0 => /\ seq[g + 1] = addi(sp, sp, -(nfp * kStackSlotSize))
                   /\ \A k \in (g + 2)..Len(seq) :
                        seq[k].op = "StoreDouble" /\ seq[k].rs1 = sp
                   /\ {seq[k].rs2 : k \in (g + 2)..Len(seq)} = SavedFp

\* C7 (as claimed): per non-empty subset one sp adjustment followed by one
\* store per register, the sp-relative offsets of the stores strictly
\* descending in emission order in both subsets; nothing for an empty subset.
C7_StoresDescend ==
  Called("PushRegisters") =>
    LET seq == Emitted(CallOf("PushRegisters"))
    IN /\ PushShape
       /\ StrictlyDescending(Stores(seq, "StoreWord"))
       /\ StrictlyDescending(Stores(seq, "StoreDouble"))

\* C7 (amended): per non-empty subset one sp adjustment followed by one
\* store per register; the offsets of the general-purpose stores strictly
\* descend in emission order, from (n - 1) * kSystemPointerSize to 0, and
\* the offsets of the floating-point stores strictly ascend, from 0 to
\* (m - 1) * sizeof(double); nothing for an empty subset.
C7_GpDescendFpAscend ==
  Called("PushRegisters") =>
    LET seq == Emitted(CallOf("PushRegisters"))
        gpSt == Stores(seq, "StoreWord")
        fpSt == Stores(seq, "StoreDouble")
    IN /\ PushShape
       /\ StrictlyDescending(gpSt)
       /\ gpSt # <<>> => /\ gpSt[1].imm = (Len(gpSt) - 1) * kSystemPointerSize
                         /\ gpSt[Len(gpSt)].imm = 0
       /\ StrictlyAscending(fpSt)
       /\ fpSt # <<>> => /\ fpSt[1].imm = 0
                         /\ fpSt[Len(fpSt)].imm = (Len(fpSt) - 1) * kDoubleSize

C7_Witness ==
  /\ Called("PushRegisters")
  /\ Cardinality(SavedGp) >= 2 /\ Cardinality(SavedFp) >= 2
  /\ Len(Stores(Emitted(CallOf("PushRegisters")), "StoreDouble")) >= 2

\* Position of register r among the registers of list, in first-set order.
RankIn(r, list) == Cardinality({q \in list : RegBefore(q, r)})

\* C8: RecordSpillsInSafepoint defines exactly one tagged slot for each
\* register in both all_spills and ref_spills and none for another; the k-th
\* register of all_spills has slot index spill_offset + k; the recorded
\* out-of-line spill space is |all_spills| * kSystemPointerSize.
C8_SpillsRecorded ==
  phase = "recorded" =>
    LET both == cfg.all_spills \cap cfg.ref_spills
        slotOf(r) == cfg.spill_offset + RankIn(r, cfg.all_spills)
    IN /\ Len(tagged_slots) = Cardinality(both)
       /\ {tagged_slots[k] : k \in DOMAIN tagged_slots} = {slotOf(r) : r \in both}
       /\ Cardinality({tagged_slots[k] : k \in DOMAIN tagged_slots}) = Len(tagged_slots)
       /\ ool_spill = Cardinality(cfg.all_spills) * kSystemPointerSize

C8_Witness ==
  /\ phase = "recorded"
  /\ Cardinality(cfg.all_spills) >= 2
  /\ cfg.ref_spills = {GetLastRegSet(cfg.all_spills)}
  /\ cfg.spill_offset > 0
  /\ tagged_slots = <<cfg.spill_offset + Cardinality(cfg.all_spills) - 1>>

-----------------------------------------------------------------------------
(* Lowering methods called one per opcode by the decoder.                  *)

\* LiftoffCondition
LiftoffConditions ==
  {"kEqual", "kUnequal", "kSignedLessThan", "kSignedLessEqual",
   "kSignedGreaterThan", "kSignedGreaterEqual", "kUnsignedLessThan",
   "kUnsignedLessEqual", "kUnsignedGreaterThan", "kUnsignedGreaterEqual"}

\* Mutant: the cases of the two inclusive orderings exchanged.
ConditionToConditionCmpFPUSwapped(condition) ==
  CASE condition = "kEqual" -> "EQ"
    [] condition = "kUnequal" -> "NE"
    [] condition = "kUnsignedLessThan" -> "LT"
    [] condition = "kUnsignedGreaterEqual" -> "LE"
    [] condition = "kUnsignedLessEqual" -> "GE"
    [] condition = "kUnsignedGreaterThan" -> "GT"
    [] OTHER -> "UNREACHABLE"

\* static FPUCondition ConditionToConditionCmpFPU(LiftoffCondition)
ConditionToConditionCmpFPU(condition) ==
  CASE condition = "kEqual" -> "EQ"
    [] condition = "kUnequal" -> "NE"
    [] condition = "kUnsignedLessThan" -> "LT"
    [] condition = "kUnsignedGreaterEqual" -> "GE"
    [] condition = "kUnsignedLessEqual" -> "LE"
    [] condition = "kUnsignedGreaterThan" -> "GT"
    [] OTHER -> "UNREACHABLE"

\* Operand registers of the lowering calls.
X(n) == <<"x", n>>
F(n) == <<"f", n>>
\* FPURegister::toV(): the vector register of a floating-point register.
toV(f) == <<"v", f[2]>>
kSimd128ScratchReg == <<"v", 24>>

\* TurboAssembler::CompareF32 / CompareF64 (dst, cc, cmp1, cmp2)
CompareF32(dst, fcond, lhs, rhs) == Ins("CompareF32", dst, lhs, rhs, 0, fcond)
CompareF64(dst, fcond, lhs, rhs) == Ins("CompareF64", dst, lhs, rhs, 0, fcond)

\* VU.set(scratch, sew, lmul): the vector-configuration instruction.
VUset(scratch, sew, lmul) == Ins("VU.set", scratch, no_reg, no_reg, sew, lmul)
andi(rd, rs, imm) == Ins("andi", rd, rs, no_reg, imm, "")
not_(rd, rs) == Ins("not", rd, rs, no_reg, 0, "")
Sw(rs, base, off) == Ins("Sw", no_reg, base, rs, off, "")
feq_s(rd, a, b) == Ins("feq_s", rd, a, b, 0, "")
feq_d(rd, a, b) == Ins("feq_d", rd, a, b, 0, "")
vmv_vx(vd, rs) == Ins("vmv_vx", vd, rs, no_reg, 0, "")
vsll_vx(vd, vs, rs) == Ins("vsll_vx", vd, vs, rs, 0, "")
vsll_vi(vd, vs, imm) == Ins("vsll_vi", vd, vs, no_reg, imm, "")
vsra_vx(vd, vs, rs) == Ins("vsra_vx", vd, vs, rs, 0, "")
vsra_vi(vd, vs, imm) == Ins("vsra_vi", vd, vs, no_reg, imm, "")
vfredmax_vs(vd, vs2, vs1) == Ins("vfredmax_vs", vd, vs2, vs1, 0, "")
vfmv_fs(fd, vs) == Ins("vfmv_fs", fd, vs, no_reg, 0, "")

\* The instructions that execute under the vector configuration.
VectorOps ==
  {"vmv_vx", "vsll_vx", "vsll_vi", "vsra_vx", "vsra_vi", "vfredmax_vs", "vfmv_fs"}

\* int32_t rhs % n in C++: the remainder has the sign of rhs.
CRem(rhs, n) == IF rhs >= 0 THEN rhs % n ELSE -((-rhs) % n)
is_uint5(v) == 0 <= v /\ v <= 31

\* Immediate shift counts handed to the shift-by-immediate lowerings.
ShiftImms == {3, 35, -1}

InitLower ==
  /\ code = EmptyBuffer
  /\ pc_offset = 0
  /\ phase = "lower"
  /\ cfg = [exit |-> -1]
  /\ safepoints = <<>>
  /\ tagged_slots = <<>>
  /\ ool_spill = -1
  /\ calls = <<>>
  /\ pc = 0
  /\ reg = [r \in {sp} |-> 0]
  /\ mem = [a \in {} |-> 0]
  /\ status = "idle"

\* The decoder hands over the next opcode unless compilation has ended.
CanLower == phase = "lower" /\ status = "idle" /\ Len(calls) < MaxOps

\* UNREACHABLE(): the compiler stops with a fatal error, nothing is emitted.
Unreachable(name, cond) ==
  /\ status' = "fatal"
  /\ calls' = Append(calls, [name |-> name, from |-> pc_offset, to |-> pc_offset,
                             cond |-> cond, imm |-> 0])
  /\ UNCHANGED <<code, pc_offset, phase, cfg, safepoints, tagged_slots,
                 ool_spill, pc, reg, mem>>

emit_f32_set_cond ==
  /\ CanLower
  /\ \E liftoff_cond \in LiftoffConditions, lhs \in {F(1), F(2)} :
       LET fcond == ConditionToConditionCmpFPU(liftoff_cond)
       IN IF fcond = "UNREACHABLE"
          THEN Unreachable("emit_f32_set_cond", liftoff_cond)
          ELSE /\ LowerWith("emit_f32_set_cond", liftoff_cond, 0,
                            <<CompareF32(X(1), fcond, lhs, F(2))>>, "lower")
               /\ UNCHANGED <<cfg, safepoints, tagged_slots, ool_spill, machine>>

emit_f64_set_cond ==
  /\ CanLower
  /\ \E liftoff_cond \in LiftoffConditions :
       LET fcond == ConditionToConditionCmpFPU(liftoff_cond)
       IN IF fcond = "UNREACHABLE"
          THEN Unreachable("emit_f64_set_cond", liftoff_cond)
          ELSE /\ LowerWith("emit_f64_set_cond", liftoff_cond, 0,
                            <<CompareF64(X(1), fcond, F(1), F(2))>>, "lower")
               /\ UNCHANGED <<cfg, safepoints, tagged_slots, ool_spill, machine>>

emit_i8x16_splat ==
  /\ CanLower
  /\ Lower("emit_i8x16_splat",
           <<VUset(kScratchReg, 8, "m1"), vmv_vx(toV(F(1)), X(1))>>, "lower")
  /\ UNCHANGED <<cfg, safepoints, tagged_slots, ool_spill, machine>>

emit_i8x16_shli ==
  /\ CanLower
  /\ \E dst \in {F(1), F(2)}, rhs \in {r \in ShiftImms : is_uint5(r)} :
       LowerWith("emit_i8x16_shli", "", rhs,
                 <<VUset(kScratchReg, 8, "m1"),
                   vsll_vi(toV(dst), toV(F(1)), CRem(rhs, 8))>>, "lower")
  /\ UNCHANGED <<cfg, safepoints, tagged_slots, ool_spill, machine>>

emit_i32x4_shl ==
  /\ CanLower
  /\ \E dst \in {F(1), F(2)}, rhs \in {X(1), X(2)} :
       Lower("emit_i32x4_shl",
             <<VUset(kScratchReg, 32, "m1"),
               andi(rhs, rhs, 32 - 1),
               vsll_vx(toV(dst), toV(F(1)), rhs)>>, "lower")
  /\ UNCHANGED <<cfg, safepoints, tagged_slots, ool_spill, machine>>

emit_i32x4_shli ==
  /\ CanLower
  /\ \E dst \in {F(1), F(2)}, rhs \in ShiftImms :
       LowerWith("emit_i32x4_shli", "", rhs,
                 IF is_uint5(CRem(rhs, 32))
                 THEN <<vsll_vi(toV(dst), toV(F(1)), CRem(rhs, 32))>>
                 ELSE <<li(kScratchReg, CRem(rhs, 32)),
                        vsll_vx(toV(dst), toV(F(1)), kScratchReg)>>,
                 "lower")
  /\ UNCHANGED <<cfg, safepoints, tagged_slots, ool_spill, machine>>

emit_i32x4_shri_s ==
  /\ CanLower
  /\ \E dst \in {F(1), F(2)}, rhs \in ShiftImms :
       LowerWith("emit_i32x4_shri_s", "", rhs,
                 <<VUset(kScratchReg, 32, "m1")>>
                 \o (IF is_uint5(CRem(rhs, 32))
                     THEN <<vsra_vi(toV(dst), toV(F(1)), CRem(rhs, 32))>>
                     ELSE <<li(kScratchReg, CRem(rhs, 32)),
                            vsra_vx(toV(dst), toV(F(1)), kScratchReg)>>),
                 "lower")
  /\ UNCHANGED <<cfg, safepoints, tagged_slots, ool_spill, machine>>

emit_s128_set_if_nan ==
  /\ CanLower
  /\ \E lane_kind \in {"kF32", "kF64"}, src \in {F(1), F(2)} :
       LET tmp_fp == F(3)
       IN LowerWith("emit_s128_set_if_nan", lane_kind, 0,
                    <<vfredmax_vs(kSimd128ScratchReg, toV(src), toV(src)),
                      vfmv_fs(tmp_fp, kSimd128ScratchReg),
                      IF lane_kind = "kF32"
                      THEN feq_s(kScratchReg, tmp_fp, tmp_fp)
                      ELSE feq_d(kScratchReg, tmp_fp, tmp_fp),
                      not_(kScratchReg, kScratchReg),
                      Sw(kScratchReg, X(1), 0)>>, "lower")
  /\ UNCHANGED <<cfg, safepoints, tagged_slots, ool_spill, machine>>

NextLower ==
  \/ emit_f32_set_cond
  \/ emit_f64_set_cond
  \/ emit_i8x16_splat
  \/ emit_i8x16_shli
  \/ emit_i32x4_shl
  \/ emit_i32x4_shli
  \/ emit_i32x4_shri_s
  \/ emit_s128_set_if_nan

SpecLower == InitLower /\ [][NextLower]_vars

-----------------------------------------------------------------------------
(* Claims about the lowering methods (checked under SpecLower).            *)

\* Index of the first instruction of seq whose op is in ops (0: none).
FirstOf(seq, ops) ==
  IF \E k \in DOMAIN seq : seq[k].op \in ops
  THEN CHOOSE k \in DOMAIN seq :
         /\ seq[k].op \in ops
         /\ \A j \in 1..(k - 1) : seq[j].op \notin ops
  ELSE 0

\* C9: every lowering call that emitted vector instructions emitted a
\* vector-configuration instruction (VU.set) of its own before the first of
\* them; none relies on the configuration a previous call left.
C9_ConfiguresBeforeVector ==
  \A k \in DOMAIN calls :
    LET seq == Emitted(calls[k])
        v == FirstOf(seq, VectorOps)
        s == FirstOf(seq, {"VU.set"})
    IN v # 0 => (s # 0 /\ s < v)

\* A vector instruction runs under the configuration of another opcode: an
\* i32x4 shift emitted with the 8-bit element width of the call before it.
C9_StaleConfiguration ==
  /\ Len(calls) = 2
  /\ calls[1].name = "emit_i8x16_splat"
  /\ calls[2].name = "emit_i32x4_shli"
  /\ FirstOf(Emitted(calls[2]), {"VU.set"}) = 0

\* C10: ConditionToConditionCmpFPU yields EQ, NE, LT, LE, GT, GE for kEqual,
\* kUnequal and the four unsigned orderings; for a signed ordering it is
\* fatal (UNREACHABLE) and emit_f32_set_cond / emit_f64_set_cond emit no
\* compare instruction.
C10_FpuConditions ==
  \A k \in DOMAIN calls :
    LET c == calls[k]
        expect == [kEqual |-> "EQ", kUnequal |-> "NE",
                   kUnsignedLessThan |-> "LT", kUnsignedLessEqual |-> "LE",
                   kUnsignedGreaterThan |-> "GT", kUnsignedGreaterEqual |-> "GE"]
        cmp == IF c.name = "emit_f32_set_cond" THEN "CompareF32" ELSE "CompareF64"
    IN c.name \in {"emit_f32_set_cond", "emit_f64_set_cond"} =>
         IF c.cond \in DOMAIN expect
         THEN /\ Len(Emitted(c)) = 1
              /\ Emitted(c)[1].op = cmp
              /\ Emitted(c)[1].cc = expect[c.cond]
              /\ (k = Len(calls) => status = "idle")
         ELSE /\ c.to = c.from
              /\ k = Len(calls)
              /\ status = "fatal"
              /\ pc_offset = c.from
              /\ \A o \in DOMAIN code : o < c.from

C10_Witness ==
  /\ status = "fatal"
  /\ Len(calls) = 2
  /\ calls[1].name = "emit_f32_set_cond" /\ calls[1].cond = "kUnsignedGreaterEqual"
  /\ calls[2].name = "emit_f32_set_cond" /\ calls[2].cond = "kSignedLessThan"
  /\ DOMAIN code = {0}
  /\ code[0].cc = "GE"

-----------------------------------------------------------------------------
(* Values of the SIMD machine.  A value is a little-endian tuple of bytes:  *)
(* 8 bytes for a general-purpose or floating-point register, 16 for a       *)
(* vector register (VLEN = 128), SEW / 8 for a lane.                        *)

kSimd128Size == 16
kXRegBytes == 8

Pow2(n) == 2 ^ n
Pow256(n) == 256 ^ n

\* Two's-complement bytes of an integer n, -2^31 <= n < 2^31.
Bytes(n, len) ==
  [k \in 1..len |->
     IF k <= 4 THEN (n \div Pow256(k - 1)) % 256
     ELSE IF n < 0 THEN 255 ELSE 0]

IsNegative(b) == b[Len(b)] >= 128

SignExtend(b, len) ==
  [k \in 1..len |-> IF k <= Len(b) THEN b[k]
                    ELSE IF IsNegative(b) THEN 255 ELSE 0]

ZeroExtend(b, len) == [k \in 1..len |-> IF k <= Len(b) THEN b[k] ELSE 0]

\* The low len bytes of b.
Truncate(b, len) == [k \in 1..len |-> b[k]]

\* Unsigned value of b, for b below 2^31.
UVal(b) ==
  LET RECURSIVE val(_)
      val(k) == IF k > Len(b) THEN 0 ELSE b[k] + 256 * val(k + 1)
  IN val(1)

\* b fits the integers of the model as an unsigned value.
FitsInt(b) == \A k \in DOMAIN b : (k > 4 => b[k] = 0) /\ (k = 4 => b[k] < 128)

\* Unsigned comparison a < b of two values of the same length.
LessU(a, b) ==
  \E k \in DOMAIN a :
    /\ a[k] < b[k]
    /\ \A j \in (k + 1)..Len(a) : a[j] = b[j]

\* Signed comparison a < b of two values of the same length.
LessS(a, b) ==
  IF IsNegative(a) # IsNegative(b) THEN IsNegative(a) ELSE LessU(a, b)

\* a + b modulo 2^(8 * Len(a)).
AddBytes(a, b) ==
  LET RECURSIVE carry(_)
      carry(k) == IF k = 0 THEN 0 ELSE (a[k] + b[k] + carry(k - 1)) \div 256
  IN [k \in DOMAIN a |-> (a[k] + b[k] + carry(k - 1)) % 256]

\* a * b modulo 2^(8 * Len(a)), column by column.
MulBytes(a, b) ==
  LET n == Len(a)
      RECURSIVE col(_, _)
      col(k, i) == IF i > k THEN 0 ELSE a[i] * b[k + 1 - i] + col(k, i + 1)
      RECURSIVE sum(_)
      sum(k) == IF k = 0 THEN 0 ELSE col(k, 1) + (sum(k - 1) \div 256)
  IN [k \in 1..n |-> sum(k) % 256]

\* Unsigned quotient a / d for a divisor 0 < d < 2^23 (long division from
\* the top byte); division by zero yields all ones.
DivUBytes(a, d) ==
  LET RECURSIVE rem(_)
      rem(k) == IF k > Len(a) THEN 0 ELSE (rem(k + 1) * 256 + a[k]) % d
  IN IF d = 0 THEN [k \in DOMAIN a |-> 255]
     ELSE [k \in DOMAIN a |-> (rem(k + 1) * 256 + a[k]) \div d]

\* The bits of b, least significant first, and back.
BitsOf(b) == [k \in 1..(8 * Len(b)) |-> (b[((k - 1) \div 8) + 1] \div Pow2((k - 1) % 8)) % 2]
OfBits(s) ==
  [k \in 1..(Len(s) \div 8) |->
     LET RECURSIVE v(_)
         v(j) == IF j = 8 THEN 0 ELSE s[8 * (k - 1) + j + 1] + 2 * v(j + 1)
     IN v(0)]

\* Logical shifts of a value by n bits.
ShiftLeft(b, n) ==
  LET s == BitsOf(b) IN OfBits([k \in DOMAIN s |-> IF k - n >= 1 THEN s[k - n] ELSE 0])
ShiftRightU(b, n) ==
  LET s == BitsOf(b) IN OfBits([k \in DOMAIN s |-> IF k + n <= Len(s) THEN s[k + n] ELSE 0])

\* Arithmetic shift right of a value by n bits.
ShiftRightS(b, n) ==
  LET s == BitsOf(b) IN OfBits([k \in DOMAIN s |-> IF k + n <= Len(s) THEN s[k + n] ELSE s[Len(s)]])

\* Bitwise and of two values of the same length.
AndBytes(a, b) ==
  LET x == BitsOf(a)
      y == BitsOf(b)
  IN OfBits([k \in DOMAIN x |-> x[k] * y[k]])

-----------------------------------------------------------------------------
(* IEEE 754 binary32 / binary64 values as 4- and 8-byte bit patterns.      *)

MantissaBits(f) == IF Len(f) = 4 THEN 23 ELSE 52
ExponentBits(f) == IF Len(f) = 4 THEN 8 ELSE 11
ExponentBias(f) == IF Len(f) = 4 THEN 127 ELSE 1023

\* The integer of bits from..to (1-based, least significant first) of s.
BitField(s, from, to) ==
  LET RECURSIVE v(_)
      v(k) == IF k > to THEN 0 ELSE s[k] + 2 * v(k + 1)
  IN v(from)

BiasedExponent(f) ==
  BitField(BitsOf(f), MantissaBits(f) + 1, MantissaBits(f) + ExponentBits(f))
MantissaIsZero(f) == \A k \in 1..MantissaBits(f) : BitsOf(f)[k] = 0
SignBit(f) == IF IsNegative(f) THEN 1 ELSE 0
\* f with the sign bit cleared.
Magnitude(f) == [f EXCEPT ![Len(f)] = f[Len(f)] % 128]

IsNaN(f) == BiasedExponent(f) = Pow2(ExponentBits(f)) - 1 /\ ~MantissaIsZero(f)
IsFZero(f) == \A k \in DOMAIN f : Magnitude(f)[k] = 0

\* The canonical quiet NaN: 0x7FC00000 / 0x7FF8000000000000.
CanonicalNaN(len) == IF len = 4 THEN <<0, 0, 192, 127>> ELSE <<0, 0, 0, 0, 0, 0, 248, 127>>

\* a < b and a == b of IEEE 754 (false when an operand is NaN).
FLess(a, b) ==
  /\ ~IsNaN(a) /\ ~IsNaN(b)
  /\ ~(IsFZero(a) /\ IsFZero(b))
  /\ IF SignBit(a) # SignBit(b) THEN SignBit(a) = 1
     ELSE IF SignBit(a) = 0 THEN LessU(Magnitude(a), Magnitude(b))
          ELSE LessU(Magnitude(b), Magnitude(a))
FEq(a, b) == ~IsNaN(a) /\ ~IsNaN(b) /\ (a = b \/ (IsFZero(a) /\ IsFZero(b)))

\* fmin / fmax of RISC-V: the non-NaN operand if one is NaN, the canonical
\* NaN if both are; -0.0 is below +0.0.
FMin(a, b) ==
  IF IsNaN(a) /\ IsNaN(b) THEN CanonicalNaN(Len(a))
  ELSE IF IsNaN(a) THEN b
  ELSE IF IsNaN(b) THEN a
  ELSE IF FLess(a, b) \/ (IsFZero(a) /\ IsFZero(b) /\ SignBit(a) = 1) THEN a ELSE b
FMax(a, b) ==
  IF IsNaN(a) /\ IsNaN(b) THEN CanonicalNaN(Len(a))
  ELSE IF IsNaN(a) THEN b
  ELSE IF IsNaN(b) THEN a
  ELSE IF FLess(b, a) \/ (IsFZero(a) /\ IsFZero(b) /\ SignBit(a) = 0) THEN a ELSE b

\* |f| rounded toward zero to an integer, as a 5-byte value; exponents of
\* 2^39 and above (and infinities, NaN) give the all-ones value.
TruncMagnitude(f) ==
  LET s == BitsOf(f)
      m == MantissaBits(f)
      e == BiasedExponent(f)
      E == e - ExponentBias(f)
      \* bit j (0-based) of the significand, hidden one included
      sig(j) == IF j < 0 \/ j > m THEN 0 ELSE IF j = m THEN 1 ELSE s[j + 1]
  IN IF e = 0 \/ E < 0 THEN Bytes(0, 5)
     ELSE IF E >= 39 THEN [k \in 1..5 |-> 255]
     ELSE OfBits([k \in 1..40 |-> sig(k - 1 + m - E)])

Int32Max == <<255, 255, 255, 127>>
Int32Min == <<0, 0, 0, 128>>
Negate(b) == AddBytes([k \in DOMAIN b |-> 255 - b[k]], Bytes(1, Len(b)))

\* fcvt.w (rtz): saturating conversion to int32; NaN converts to INT32_MAX.
TruncS32(f) ==
  LET mag == TruncMagnitude(f)
  IN IF IsNaN(f) THEN Int32Max
     ELSE IF SignBit(f) = 0
          THEN IF LessU(ZeroExtend(Int32Max, 5), mag) THEN Int32Max ELSE Truncate(mag, 4)
          ELSE IF LessU(ZeroExtend(Int32Min, 5), mag) THEN Int32Min
               ELSE Negate(Truncate(mag, 4))

\* fcvt.wu (rtz): saturating conversion to uint32; NaN converts to UINT32_MAX.
TruncU32(f) ==
  LET mag == TruncMagnitude(f)
  IN IF IsNaN(f) THEN Bytes(-1, 4)
     ELSE IF SignBit(f) = 1 THEN Bytes(0, 4)
     ELSE IF mag[5] # 0 THEN Bytes(-1, 4) ELSE Truncate(mag, 4)

-----------------------------------------------------------------------------
(* The SIMD machine: registers of the vector unit and the instructions the  *)
(* SIMD lowerings emit.                                                     *)

kScratchReg2 == <<"kScratchReg2", 0>>
V(n) == <<"v", n>>
v0 == V(0)
kSimd128ScratchReg2 == V(23)
kSimd128ScratchReg3 == V(8)
kSimd128RegZero == V(25)
\* The vector configuration (vtype) and the floating-point rounding mode.
vtype == <<"vtype", 0>>
frm == <<"frm", 0>>

\* VU.set(FPURoundingMode)
VUsetRm(mode) == Ins("VU.set_frm", no_reg, no_reg, no_reg, 0, mode)
slli(rd, rs, shamt) == Ins("slli", rd, rs, no_reg, shamt, "")
srli(rd, rs, shamt) == Ins("srli", rd, rs, no_reg, shamt, "")
\* beq / beqz to a label bound `skip` instructions after the branch.
beq(rs1, rs2, skip) == Ins("beq", no_reg, rs1, rs2, (skip + 1) * kInstrSize, "")
beqz(rs, skip) == beq(rs, zero_reg, skip)
fmv_x_w(rd, fs) == Ins("fmv_x_w", rd, fs, no_reg, 0, "")
vmv_vv(vd, vs) == Ins("vmv_vv", vd, vs, no_reg, 0, "")
vmv_sx(vd, rs) == Ins("vmv_sx", vd, rs, no_reg, 0, "")
vmv_xs(rd, vs) == Ins("vmv_xs", rd, vs, no_reg, 0, "")
vslidedown_vi(vd, vs2, uimm) == Ins("vslidedown_vi", vd, vs2, no_reg, uimm, "")
\* vmerge: vd[i] = v0.mask[i] ? first source : vs2[i]
vmerge_vx(vd, rs1, vs2) == Ins("vmerge_vx", vd, rs1, vs2, 0, "")
vmerge_vv(vd, vs1, vs2) == Ins("vmerge_vv", vd, vs1, vs2, 0, "")
vwmul_vv(vd, vs2, vs1) == Ins("vwmul_vv", vd, vs2, vs1, 0, "")
vwmulu_vv(vd, vs2, vs1) == Ins("vwmulu_vv", vd, vs2, vs1, 0, "")
vwaddu_vv(vd, vs2, vs1) == Ins("vwaddu_vv", vd, vs2, vs1, 0, "")
vwaddu_wx(vd, vs2, rs1) == Ins("vwaddu_wx", vd, vs2, rs1, 0, "")
vdivu_vx(vd, vs2, rs1) == Ins("vdivu_vx", vd, vs2, rs1, 0, "")
vnclipu_vi(vd, vs2, uimm) == Ins("vnclipu_vi", vd, vs2, no_reg, uimm, "")
vand_vv(vd, vs2, vs1) == Ins("vand_vv", vd, vs2, vs1, 0, "")
vmfeq_vv(vd, vs2, vs1) == Ins("vmfeq_vv", vd, vs2, vs1, 0, "")
vmflt_vv(vd, vs2, vs1) == Ins("vmflt_vv", vd, vs2, vs1, 0, "")
vfmin_vv(vd, vs2, vs1, mask) == Ins("vfmin_vv", vd, vs2, vs1, 0, mask)
vfmax_vv(vd, vs2, vs1, mask) == Ins("vfmax_vv", vd, vs2, vs1, 0, mask)
vfcvt_x_f_v(vd, vs2, mask) == Ins("vfcvt_x_f_v", vd, vs2, no_reg, 0, mask)
vfcvt_xu_f_v(vd, vs2, mask) == Ins("vfcvt_xu_f_v", vd, vs2, no_reg, 0, mask)
vfncvt_x_f_w(vd, vs2, mask) == Ins("vfncvt_x_f_w", vd, vs2, no_reg, 0, mask)
vfncvt_xu_f_w(vd, vs2, mask) == Ins("vfncvt_xu_f_w", vd, vs2, no_reg, 0, mask)
vredmaxu_vs(vd, vs2, vs1) == Ins("vredmaxu_vs", vd, vs2, vs1, 0, "")
vredminu_vs(vd, vs2, vs1) == Ins("vredminu_vs", vd, vs2, vs1, 0, "")
vsrl_vx(vd, vs, rs) == Ins("vsrl_vx", vd, vs, rs, 0, "")
vmsne_vv(vd, vs2, vs1) == Ins("vmsne_vv", vd, vs2, vs1, 0, "")
vmslt_vv(vd, vs2, vs1) == Ins("vmslt_vv", vd, vs2, vs1, 0, "")
vadd_vi(vd, vs2, simm, mask) == Ins("vadd_vi", vd, vs2, no_reg, simm, mask)
\* vfirst.m: index of the first set mask bit of vs2, -1 if there is none.
vfirst_m(rd, vs2) == Ins("vfirst_m", rd, vs2, no_reg, 0, "")
\* bgez to a label bound `back` instructions before the branch.
bgez(rs, back) == Ins("bgez", no_reg, rs, no_reg, -(back * kInstrSize), "")

\* LMUL in halves of a register.
LmulHalves(lmul) == CASE lmul = "mf2" -> 1 [] lmul = "m1" -> 2 [] lmul = "m2" -> 4
\* VLMAX = VLEN / SEW * LMUL, for lanes of w bytes.
VLMax(w, lmul) == ((kSimd128Size \div w) * LmulHalves(lmul)) \div 2

\* Lane i (of w bytes) of the register group that starts at vs.
ReadLane(r, vs, w, i) ==
  LET g == i * w
  IN SubSeq(r[V(vs[2] + (g \div kSimd128Size))],
            (g % kSimd128Size) + 1, (g % kSimd128Size) + w)

\* The lanes 0..n-1 of the group at vs.
ReadLanes(r, vs, w, n) == [k \in 1..n |-> ReadLane(r, vs, w, k - 1)]

\* The register file with lanes (of w bytes each) written to the register
\* group that starts at vd; bytes past the last lane are undisturbed.
WriteLanes(r, vd, w, lanes) ==
  [x \in DOMAIN r |->
     IF x[1] = "v" /\ x[2] >= vd[2] /\ kSimd128Size * (x[2] - vd[2]) < Len(lanes) * w
     THEN [p \in 1..kSimd128Size |->
             LET g == kSimd128Size * (x[2] - vd[2]) + p - 1
             IN IF (g \div w) < Len(lanes)
                THEN lanes[(g \div w) + 1][(g % w) + 1] ELSE r[x][p]]
     ELSE r[x]]

\* Registers of the group of n lanes (of w bytes) that starts at vd.
GroupRegs(vd, w, n) ==
  {V(vd[2] + k) : k \in 0..(((n * w + kSimd128Size - 1) \div kSimd128Size) - 1)}

\* Bit i of the mask register v0.
MaskBit(r, i) == BitsOf(r[v0])[i + 1]

\* The register file with the mask bits 0..Len(bits)-1 of vd written.
WriteMask(r, vd, bits) ==
  LET old == BitsOf(r[vd])
  IN [r EXCEPT ![vd] = OfBits([k \in DOMAIN old |->
                                 IF k <= Len(bits) THEN bits[k] ELSE old[k]])]

\* Round-to-nearest-even increments the truncated magnitude when the
\* discarded fraction is above one half, or is one half with an odd integer.
RoundsUp(f) ==
  LET s == BitsOf(f)
      m == MantissaBits(f)
      e == BiasedExponent(f)
      E == e - ExponentBias(f)
      sig(j) == IF j < 0 \/ j > m THEN 0 ELSE IF j = m THEN 1 ELSE s[j + 1]
      half == sig(m - E - 1)
      sticky == \E j \in 0..(m - E - 2) : sig(j) = 1
      odd == sig(m - E)
  IN e # 0 /\ E >= -1 /\ E < m /\ half = 1 /\ (sticky \/ odd = 1)

\* |f| rounded to an integer under the rounding mode.
RoundMagnitude(f, mode) ==
  IF mode = "RNE" /\ RoundsUp(f)
  THEN AddBytes(TruncMagnitude(f), Bytes(1, 5))
  ELSE TruncMagnitude(f)

\* vfcvt.x.f / vfcvt.xu.f of one lane under the dynamic rounding mode.
FcvtS32(f, mode) ==
  LET mag == RoundMagnitude(f, mode)
  IN IF IsNaN(f) THEN Int32Max
     ELSE IF SignBit(f) = 0
          THEN IF LessU(ZeroExtend(Int32Max, 5), mag) THEN Int32Max ELSE Truncate(mag, 4)
          ELSE IF LessU(ZeroExtend(Int32Min, 5), mag) THEN Int32Min
               ELSE Negate(Truncate(mag, 4))
FcvtU32(f, mode) ==
  LET mag == RoundMagnitude(f, mode)
  IN IF IsNaN(f) THEN Bytes(-1, 4)
     ELSE IF SignBit(f) = 1 THEN Bytes(0, 4)
     ELSE IF mag[5] # 0 THEN Bytes(-1, 4) ELSE Truncate(mag, 4)

\* Unsigned maximum / minimum of the values of a non-empty sequence.
MaxU(q) == CHOOSE a \in {q[k] : k \in DOMAIN q} : \A k \in DOMAIN q : ~LessU(a, q[k])
MinU(q) == CHOOSE a \in {q[k] : k \in DOMAIN q} : \A k \in DOMAIN q : ~LessU(q[k], a)

\* Unsigned saturation of a value to len bytes.
SaturateU(b, len) ==
  IF \E k \in (len + 1)..Len(b) : b[k] # 0 THEN [k \in 1..len |-> 255]
  ELSE Truncate(b, len)

\* The machine after executing instruction i of the SIMD code at m.pc.
\* A widening instruction whose destination group overlaps a narrower source
\* is a reserved encoding: the machine stops with status "illegal".
\* vfredmax: fmax over the scalar start value and the first n lanes of q.
RECURSIVE ReduceFMax(_, _, _)
ReduceFMax(start, q, n) ==
  IF n = 0 THEN start ELSE FMax(ReduceFMax(start, q, n - 1), q[n])

\* A scalar of len bytes in a floating-point register: a value that is not
\* NaN-boxed reads as the canonical NaN.
Unboxed(f, len) ==
  IF \A k \in (len + 1)..kXRegBytes : f[k] = 255
  THEN Truncate(f, len) ELSE CanonicalNaN(len)

ExecV(i, m) ==
  LET next == m.pc + kInstrSize
      r == m.reg
      w == r[vtype].sew \div 8
      vl == VLMax(w, r[vtype].lmul)
      active(k) == i.cc # "Mask" \/ MaskBit(r, k - 1) = 1
      \* lanes of vd after a lane-wise operation f on the lane index (1-based)
      lanewise(f(_)) ==
        [k \in 1..vl |-> IF active(k) THEN f(k) ELSE ReadLane(r, i.rd, w, k - 1)]
      setv(lanes, lw) == [m EXCEPT !.pc = next, !.reg = WriteLanes(r, i.rd, lw, lanes)]
      setx(val) == [m EXCEPT !.pc = next, !.reg = [r EXCEPT ![i.rd] = val]]
      a(k) == ReadLane(r, i.rs1, w, k - 1)
      b(k) == ReadLane(r, i.rs2, w, k - 1)
      wide(k) == ReadLane(r, i.rs1, 2 * w, k - 1)
      x1 == Truncate(r[i.rs1], w)
      overlaps(src) == GroupRegs(i.rd, 2 * w, vl) \cap GroupRegs(src, w, vl) # {}
      illegal == [m EXCEPT !.status = "illegal"]
  IN CASE i.op = "VU.set" ->
            [m EXCEPT !.pc = next,
                      !.reg = [r EXCEPT ![vtype] = [sew |-> i.imm, lmul |-> i.cc],
                                        ![i.rd] = Bytes(VLMax(i.imm \div 8, i.cc),
                                                        kXRegBytes)]]
       [] i.op = "VU.set_frm" -> [m EXCEPT !.pc = next, !.reg = [r EXCEPT ![frm] = i.cc]]
       [] i.op = "li" -> setx(Bytes(i.imm, kXRegBytes))
       [] i.op = "andi" -> setx(AndBytes(r[i.rs1], Bytes(i.imm, kXRegBytes)))
       [] i.op = "vsll_vx" ->
            LET f(k) == ShiftLeft(a(k), r[i.rs2][1] % (8 * w)) IN setv(lanewise(f), w)
       [] i.op = "vsra_vx" ->
            LET f(k) == ShiftRightS(a(k), r[i.rs2][1] % (8 * w)) IN setv(lanewise(f), w)
       [] i.op = "vsrl_vx" ->
            LET f(k) == ShiftRightU(a(k), r[i.rs2][1] % (8 * w)) IN setv(lanewise(f), w)
       [] i.op = "not" -> setx([k \in 1..kXRegBytes |-> 255 - r[i.rs1][k]])
       [] i.op = "feq_s" ->
            setx(Bytes(IF FEq(Unboxed(r[i.rs1], 4), Unboxed(r[i.rs2], 4)) THEN 1 ELSE 0,
                       kXRegBytes))
       [] i.op = "feq_d" ->
            setx(Bytes(IF FEq(r[i.rs1], r[i.rs2]) THEN 1 ELSE 0, kXRegBytes))
       [] i.op \in {"Sw", "StoreWord"} ->
            LET addr == r[i.rs1]
                val == IF i.op = "Sw" THEN Truncate(r[i.rs2], 4) ELSE r[i.rs2]
            IN [m EXCEPT !.pc = next,
                         !.mem = [q \in DOMAIN m.mem \cup {addr} |->
                                    IF q = addr THEN val ELSE m.mem[q]]]
       [] i.op = "vfredmax_vs" ->
            setv(<<ReduceFMax(b(1), ReadLanes(r, i.rs1, w, vl), vl)>>, w)
       [] i.op = "slli" -> setx(ShiftLeft(r[i.rs1], i.imm))
       [] i.op = "srli" -> setx(ShiftRightU(r[i.rs1], i.imm))
       [] i.op = "beq" ->
            [m EXCEPT !.pc = IF r[i.rs1] = r[i.rs2] THEN m.pc + i.imm ELSE next]
       [] i.op = "fmv_x_w" -> setx(SignExtend(Truncate(r[i.rs1], 4), kXRegBytes))
       [] i.op = "vmv_vx" -> LET f(k) == x1 IN setv(lanewise(f), w)
       [] i.op = "vmv_vv" -> setv(lanewise(a), w)
       [] i.op = "vmv_sx" -> setv(<<x1>>, w)
       [] i.op = "vmv_xs" -> setx(SignExtend(ReadLane(r, i.rs1, w, 0), kXRegBytes))
       [] i.op = "vfmv_fs" ->
            setx([k \in 1..kXRegBytes |->
                    IF k <= w THEN ReadLane(r, i.rs1, w, 0)[k] ELSE 255])
       [] i.op = "vslidedown_vi" ->
            LET f(k) == IF k - 1 + i.imm < vl THEN ReadLane(r, i.rs1, w, k - 1 + i.imm)
                        ELSE Bytes(0, w)
            IN setv(lanewise(f), w)
       [] i.op = "vmerge_vx" ->
            setv([k \in 1..vl |-> IF MaskBit(r, k - 1) = 1 THEN x1 ELSE b(k)], w)
       [] i.op = "vmerge_vv" ->
            setv([k \in 1..vl |-> IF MaskBit(r, k - 1) = 1 THEN a(k) ELSE b(k)], w)
       [] i.op \in {"vwmul_vv", "vwmulu_vv", "vwaddu_vv"} ->
            IF overlaps(i.rs1) \/ overlaps(i.rs2) THEN illegal
            ELSE LET f(k) ==
                       CASE i.op = "vwmul_vv" ->
                              MulBytes(SignExtend(a(k), 2 * w), SignExtend(b(k), 2 * w))
                         [] i.op = "vwmulu_vv" ->
                              MulBytes(ZeroExtend(a(k), 2 * w), ZeroExtend(b(k), 2 * w))
                         [] i.op = "vwaddu_vv" ->
                              AddBytes(ZeroExtend(a(k), 2 * w), ZeroExtend(b(k), 2 * w))
                 IN setv([k \in 1..vl |-> f(k)], 2 * w)
       [] i.op = "vwaddu_wx" ->
            setv([k \in 1..vl |->
                    AddBytes(wide(k), ZeroExtend(Truncate(r[i.rs2], w), 2 * w))], 2 * w)
       [] i.op = "vdivu_vx" ->
            setv([k \in 1..vl |-> DivUBytes(a(k), UVal(Truncate(r[i.rs2], w)))], w)
       [] i.op = "vnclipu_vi" ->
            setv([k \in 1..vl |-> SaturateU(ShiftRightU(wide(k), i.imm), w)], w)
       [] i.op = "vand_vv" -> LET f(k) == AndBytes(a(k), b(k)) IN setv(lanewise(f), w)
       [] i.op = "vmfeq_vv" ->
            [m EXCEPT !.pc = next,
                      !.reg = WriteMask(r, i.rd, [k \in 1..vl |->
                                                    IF FEq(a(k), b(k)) THEN 1 ELSE 0])]
       [] i.op = "vmflt_vv" ->
            [m EXCEPT !.pc = next,
                      !.reg = WriteMask(r, i.rd, [k \in 1..vl |->
                                                    IF FLess(a(k), b(k)) THEN 1 ELSE 0])]
       [] i.op = "vfmin_vv" -> LET f(k) == FMin(a(k), b(k)) IN setv(lanewise(f), w)
       [] i.op = "vfmax_vv" -> LET f(k) == FMax(a(k), b(k)) IN setv(lanewise(f), w)
       [] i.op = "vfcvt_x_f_v" ->
            LET f(k) == FcvtS32(a(k), r[frm]) IN setv(lanewise(f), w)
       [] i.op = "vfcvt_xu_f_v" ->
            LET f(k) == FcvtU32(a(k), r[frm]) IN setv(lanewise(f), w)
       [] i.op = "vfncvt_x_f_w" ->
            LET f(k) == FcvtS32(wide(k), r[frm]) IN setv(lanewise(f), w)
       [] i.op = "vfncvt_xu_f_w" ->
            LET f(k) == FcvtU32(wide(k), r[frm]) IN setv(lanewise(f), w)
       [] i.op = "vredmaxu_vs" ->
            setv(<<MaxU(<<b(1)>> \o ReadLanes(r, i.rs1, w, vl))>>, w)
       [] i.op = "vredminu_vs" ->
            setv(<<MinU(<<b(1)>> \o ReadLanes(r, i.rs1, w, vl))>>, w)
       [] i.op = "vmsne_vv" ->
            [m EXCEPT !.pc = next,
                      !.reg = WriteMask(r, i.rd, [k \in 1..vl |->
                                                    IF a(k) # b(k) THEN 1 ELSE 0])]
       [] i.op = "vmslt_vv" ->
            [m EXCEPT !.pc = next,
                      !.reg = WriteMask(r, i.rd, [k \in 1..vl |->
                                                    IF LessS(a(k), b(k)) THEN 1 ELSE 0])]
       [] i.op = "vadd_vi" ->
            LET f(k) == AddBytes(a(k), Bytes(i.imm, w)) IN setv(lanewise(f), w)
       [] i.op = "vfirst_m" ->
            LET bits == BitsOf(r[i.rs1])
                set == {k \in 1..vl : bits[k] = 1}
            IN setx(Bytes(IF set = {} THEN -1
                          ELSE (CHOOSE k \in set : \A q \in set : k <= q) - 1,
                          kXRegBytes))
       [] i.op = "bgez" ->
            [m EXCEPT !.pc = IF IsNegative(r[i.rs1]) THEN next ELSE m.pc + i.imm]

-----------------------------------------------------------------------------
(* SIMD lowerings: harness.  A lowering call appends its instructions and   *)
(* records its operands; the emitted code then runs on the SIMD machine.    *)

\* Contents of a vector register nothing has written yet.
JunkVector == [k \in 1..kSimd128Size |-> 165]
JunkScalar == [k \in 1..kXRegBytes |-> 90]

\* The registers of the SIMD machine: operands, results and scratch.
SimdRegisters ==
  {X(1), X(2), zero_reg, kScratchReg, kScratchReg2, F(1), F(2), vtype, frm}
    \cup {V(n) : n \in {0, 1, 2, 3, 8, 9, 23, 24, 25}}

\* The machine on entry to the emitted code: v1 and v2 hold the vector
\* operands, x1 and f2 the scalar operands.
SimdRegs0(in) ==
  [q \in SimdRegisters |->
     CASE q = V(1) -> in.v1
       [] q = V(2) -> in.v2
       [] q = X(1) -> in.x
       [] q = F(2) -> in.f
       [] q = zero_reg -> Bytes(0, kXRegBytes)
       [] q = vtype -> [sew |-> 8, lmul |-> "m1"]
       [] q = frm -> "RNE"
       [] q[1] = "v" -> JunkVector
       [] OTHER -> JunkScalar]

InitSimd(inputs, start) ==
  /\ code = EmptyBuffer
  /\ pc_offset = 0
  /\ phase = start
  /\ \E in \in inputs : cfg = [exit |-> -1, in |-> in, bailouts |-> <<>>]
  /\ safepoints = <<>>
  /\ tagged_slots = <<>>
  /\ ool_spill = -1
  /\ calls = <<>>
  /\ pc = 0
  /\ reg = SimdRegs0(cfg.in)
  /\ mem = [a \in {} |-> 0]
  /\ status = "idle"

\* One lowering call: seq is appended to the buffer, the operands a are
\* recorded, and the compilation goes on in phase `then`.
SimdLower(name, a, seq, then) ==
  /\ status = "idle"
  /\ code' = Place(code, pc_offset, seq)
  /\ pc_offset' = pc_offset + kInstrSize * Len(seq)
  /\ calls' = Append(calls, [name |-> name, from |-> pc_offset,
                             to |-> pc_offset + kInstrSize * Len(seq), a |-> a])
  /\ phase' = then
  /\ UNCHANGED <<cfg, safepoints, tagged_slots, ool_spill, machine>>

\* The emitted code is entered at its first instruction.
RunSimd ==
  /\ phase = "emitted"
  /\ status = "idle"
  /\ status' = "run"
  /\ pc' = 0
  /\ cfg' = [cfg EXCEPT !.exit = pc_offset]
  /\ UNCHANGED <<code, pc_offset, phase, safepoints, tagged_slots, ool_spill,
                 calls, reg, mem>>

\* One instruction of the emitted SIMD code runs.
StepSimd ==
  /\ status = "run"
  /\ IF pc = cfg.exit
     THEN /\ status' = "done"
          /\ UNCHANGED <<pc, reg, mem>>
     ELSE /\ pc \in DOMAIN code
          /\ LET m == ExecV(code[pc], [pc |-> pc, reg |-> reg, mem |-> mem,
                                       status |-> status])
             IN /\ pc' = m.pc
                /\ reg' = m.reg
                /\ mem' = m.mem
                /\ status' = m.status
  /\ UNCHANGED <<code, pc_offset, phase, cfg, safepoints, tagged_slots,
                 ool_spill, calls>>

\* A call of bailout(reason, detail), as the compilation records it.
bailout(reason, detail) == [reason |-> reason, detail |-> detail]

\* One lowering call that gives up: seq is appended to the buffer, the calls
\* of bailout it makes are recorded, and the compilation stops.
SimdBailout(name, a, seq, outs) ==
  /\ status = "idle"
  /\ code' = Place(code, pc_offset, seq)
  /\ pc_offset' = pc_offset + kInstrSize * Len(seq)
  /\ calls' = Append(calls, [name |-> name, from |-> pc_offset,
                             to |-> pc_offset + kInstrSize * Len(seq), a |-> a])
  /\ cfg' = [cfg EXCEPT !.bailouts = @ \o outs]
  /\ phase' = "bailed"
  /\ UNCHANGED <<safepoints, tagged_slots, ool_spill, machine>>

-----------------------------------------------------------------------------
(* Lane lowerings: splat, extract_lane, replace_lane.  A producer (splat or *)
(* replace_lane) is lowered, then an extract_lane, then the code runs.      *)

\* Operands of a SIMD lowering call.
Args(dst, src1, src2, imm) == [dst |-> dst, src1 |-> src1, src2 |-> src2, imm |-> imm]

\* Lane indexes handed to the lowerings of a shape of n lanes.
LaneIndexes(n) == {0, 1, n - 1}
\* Destination vector registers: the first source or a free register.
LaneDsts == {F(1), F(3)}

emit_i8x16_splat_simd ==
  /\ phase = "lower"
  /\ \E dst \in LaneDsts :
       LET src == X(1)
       IN SimdLower("emit_i8x16_splat", Args(dst, src, no_reg, 0),
                    <<VUset(kScratchReg, 8, "m1"),
                      vmv_vx(toV(dst), src)>>, "produced")

emit_i16x8_splat ==
  /\ phase = "lower"
  /\ \E dst \in LaneDsts :
       LET src == X(1)
       IN SimdLower("emit_i16x8_splat", Args(dst, src, no_reg, 0),
                    <<VUset(kScratchReg, 16, "m1"),
                      vmv_vx(toV(dst), src)>>, "produced")

emit_i32x4_splat ==
  /\ phase = "lower"
  /\ \E dst \in LaneDsts :
       LET src == X(1)
       IN SimdLower("emit_i32x4_splat", Args(dst, src, no_reg, 0),
                    <<VUset(kScratchReg, 32, "m1"),
                      vmv_vx(toV(dst), src)>>, "produced")

emit_i64x2_splat ==
  /\ phase = "lower"
  /\ \E dst \in LaneDsts :
       LET src == X(1)
       IN SimdLower("emit_i64x2_splat", Args(dst, src, no_reg, 0),
                    <<VUset(kScratchReg, 64, "m1"),
                      vmv_vx(toV(dst), src)>>, "produced")

emit_i8x16_extract_lane_s ==
  /\ phase = "produced"
  /\ \E dst \in {X(1), X(2)}, lhs \in LaneDsts, imm_lane_idx \in LaneIndexes(16) :
       SimdLower("emit_i8x16_extract_lane_s", Args(dst, lhs, no_reg, imm_lane_idx),
                 <<VUset(kScratchReg, 8, "m1"),
                   vslidedown_vi(kSimd128ScratchReg, toV(lhs), imm_lane_idx),
                   vmv_xs(dst, kSimd128ScratchReg)>>,
                 "emitted")

\* Mutant: the zero extension of the extracted lane shifts by the wrong width.
emit_i8x16_extract_lane_u_Shift16 ==
  /\ phase = "produced"
  /\ \E dst \in {X(1), X(2)}, lhs \in LaneDsts, imm_lane_idx \in LaneIndexes(16) :
       SimdLower("emit_i8x16_extract_lane_u", Args(dst, lhs, no_reg, imm_lane_idx),
                 <<VUset(kScratchReg, 8, "m1"),
                   vslidedown_vi(kSimd128ScratchReg, toV(lhs), imm_lane_idx),
                   vmv_xs(dst, kSimd128ScratchReg),
                   slli(dst, dst, 64 - 16),
                   srli(dst, dst, 64 - 16)>>,
                 "emitted")

emit_i8x16_extract_lane_u ==
  /\ phase = "produced"
  /\ \E dst \in {X(1), X(2)}, lhs \in LaneDsts, imm_lane_idx \in LaneIndexes(16) :
       SimdLower("emit_i8x16_extract_lane_u", Args(dst, lhs, no_reg, imm_lane_idx),
                 <<VUset(kScratchReg, 8, "m1"),
                   vslidedown_vi(kSimd128ScratchReg, toV(lhs), imm_lane_idx),
                   vmv_xs(dst, kSimd128ScratchReg),
                   slli(dst, dst, 64 - 8),
                   srli(dst, dst, 64 - 8)>>,
                 "emitted")

emit_i16x8_extract_lane_s ==
  /\ phase = "produced"
  /\ \E dst \in {X(1), X(2)}, lhs \in LaneDsts, imm_lane_idx \in LaneIndexes(8) :
       SimdLower("emit_i16x8_extract_lane_s", Args(dst, lhs, no_reg, imm_lane_idx),
                 <<VUset(kScratchReg, 16, "m1"),
                   vslidedown_vi(kSimd128ScratchReg, toV(lhs), imm_lane_idx),
                   vmv_xs(dst, kSimd128ScratchReg)>>,
                 "emitted")

emit_i16x8_extract_lane_u ==
  /\ phase = "produced"
  /\ \E dst \in {X(1), X(2)}, lhs \in LaneDsts, imm_lane_idx \in LaneIndexes(8) :
       SimdLower("emit_i16x8_extract_lane_u", Args(dst, lhs, no_reg, imm_lane_idx),
                 <<VUset(kScratchReg, 16, "m1"),
                   vslidedown_vi(kSimd128ScratchReg, toV(lhs), imm_lane_idx),
                   vmv_xs(dst, kSimd128ScratchReg),
                   slli(dst, dst, 64 - 16),
                   srli(dst, dst, 64 - 16)>>,
                 "emitted")

emit_i32x4_extract_lane ==
  /\ phase = "produced"
  /\ \E dst \in {X(1), X(2)}, lhs \in LaneDsts, imm_lane_idx \in LaneIndexes(4) :
       SimdLower("emit_i32x4_extract_lane", Args(dst, lhs, no_reg, imm_lane_idx),
                 <<VUset(kScratchReg, 32, "m1"),
                   vslidedown_vi(kSimd128ScratchReg, toV(lhs), imm_lane_idx),
                   vmv_xs(dst, kSimd128ScratchReg)>>,
                 "emitted")

emit_i64x2_extract_lane ==
  /\ phase = "produced"
  /\ \E dst \in {X(1), X(2)}, lhs \in LaneDsts, imm_lane_idx \in LaneIndexes(2) :
       SimdLower("emit_i64x2_extract_lane", Args(dst, lhs, no_reg, imm_lane_idx),
                 <<VUset(kScratchReg, 64, "m1"),
                   vslidedown_vi(kSimd128ScratchReg, toV(lhs), imm_lane_idx),
                   vmv_xs(dst, kSimd128ScratchReg)>>,
                 "emitted")

emit_f32x4_extract_lane ==
  /\ phase = "produced"
  /\ \E dst \in {F(1), F(2)}, lhs \in LaneDsts, imm_lane_idx \in LaneIndexes(4) :
       SimdLower("emit_f32x4_extract_lane", Args(dst, lhs, no_reg, imm_lane_idx),
                 <<VUset(kScratchReg, 32, "m1"),
                   vslidedown_vi(kSimd128ScratchReg, toV(lhs), imm_lane_idx),
                   vfmv_fs(dst, kSimd128ScratchReg)>>,
                 "emitted")

\* Mutant: the merge runs under the 64-bit configuration of the mask setup.
emit_i8x16_replace_lane_NoE8 ==
  /\ phase = "lower"
  /\ \E dst \in LaneDsts, imm_lane_idx \in LaneIndexes(16) :
       LET src1 == F(1)
           src2 == X(1)
       IN SimdLower("emit_i8x16_replace_lane", Args(dst, src1, src2, imm_lane_idx),
                    <<VUset(kScratchReg, 64, "m1"),
                      li(kScratchReg, Pow2(imm_lane_idx)),
                      vmv_sx(v0, kScratchReg),
                      vmerge_vx(toV(dst), src2, toV(src1))>>, "produced")

emit_i8x16_replace_lane ==
  /\ phase = "lower"
  /\ \E dst \in LaneDsts, imm_lane_idx \in LaneIndexes(16) :
       LET src1 == F(1)
           src2 == X(1)
       IN SimdLower("emit_i8x16_replace_lane", Args(dst, src1, src2, imm_lane_idx),
                    <<VUset(kScratchReg, 64, "m1"),
                      li(kScratchReg, Pow2(imm_lane_idx)),
                      vmv_sx(v0, kScratchReg),
                      VUset(kScratchReg, 8, "m1"),
                      vmerge_vx(toV(dst), src2, toV(src1))>>, "produced")

emit_i16x8_replace_lane ==
  /\ phase = "lower"
  /\ \E dst \in LaneDsts, imm_lane_idx \in LaneIndexes(8) :
       LET src1 == F(1)
           src2 == X(1)
       IN SimdLower("emit_i16x8_replace_lane", Args(dst, src1, src2, imm_lane_idx),
                    <<VUset(kScratchReg, 16, "m1"),
                      li(kScratchReg, Pow2(imm_lane_idx)),
                      vmv_sx(v0, kScratchReg),
                      vmerge_vx(toV(dst), src2, toV(src1))>>, "produced")

emit_i32x4_replace_lane ==
  /\ phase = "lower"
  /\ \E dst \in LaneDsts, imm_lane_idx \in LaneIndexes(4) :
       LET src1 == F(1)
           src2 == X(1)
       IN SimdLower("emit_i32x4_replace_lane", Args(dst, src1, src2, imm_lane_idx),
                    <<VUset(kScratchReg, 32, "m1"),
                      li(kScratchReg, Pow2(imm_lane_idx)),
                      vmv_sx(v0, kScratchReg),
                      vmerge_vx(toV(dst), src2, toV(src1))>>, "produced")

emit_i64x2_replace_lane ==
  /\ phase = "lower"
  /\ \E dst \in LaneDsts, imm_lane_idx \in LaneIndexes(2) :
       LET src1 == F(1)
           src2 == X(1)
       IN SimdLower("emit_i64x2_replace_lane", Args(dst, src1, src2, imm_lane_idx),
                    <<VUset(kScratchReg, 64, "m1"),
                      li(kScratchReg, Pow2(imm_lane_idx)),
                      vmv_sx(v0, kScratchReg),
                      vmerge_vx(toV(dst), src2, toV(src1))>>, "produced")

emit_f32x4_replace_lane ==
  /\ phase = "lower"
  /\ \E dst \in LaneDsts, imm_lane_idx \in LaneIndexes(4) :
       LET src1 == F(1)
           src2 == F(2)
       IN SimdLower("emit_f32x4_replace_lane", Args(dst, src1, src2, imm_lane_idx),
                    <<VUset(kScratchReg, 32, "m1"),
                      li(kScratchReg, Pow2(imm_lane_idx)),
                      vmv_sx(v0, kScratchReg),
                      fmv_x_w(kScratchReg, src2),
                      vmerge_vx(toV(dst), kScratchReg, toV(src1))>>, "produced")

\* Vector and scalar operands of the lane lowerings: every byte of a vector
\* differs from the others, the scalars are negative at some lane widths and
\* positive at others.
LaneVectors ==
  {[k \in 1..kSimd128Size |-> 16 * (k - 1) + k - 1],
   [k \in 1..kSimd128Size |-> 255 - 3 * k]}
LaneScalars ==
  {<<128, 255, 255, 255, 255, 255, 255, 255>>,
   <<1, 2, 3, 132, 5, 6, 7, 136>>,
   <<255, 127, 0, 0, 0, 0, 0, 0>>}
\* A float32 in a floating-point register is NaN-boxed.
NanBox(f32) == [k \in 1..kXRegBytes |-> IF k <= 4 THEN f32[k] ELSE 255]
LaneInputs ==
  {[v1 |-> v, v2 |-> JunkVector, x |-> x, f |-> NanBox(Truncate(x, 4))] :
     v \in LaneVectors, x \in LaneScalars}

InitLanes == InitSimd(LaneInputs, "lower")

NextLanes ==
  \/ emit_i8x16_splat_simd
  \/ emit_i16x8_splat
  \/ emit_i32x4_splat
  \/ emit_i64x2_splat
  \/ emit_i8x16_replace_lane
  \/ emit_i16x8_replace_lane
  \/ emit_i32x4_replace_lane
  \/ emit_i64x2_replace_lane
  \/ emit_f32x4_replace_lane
  \/ emit_i8x16_extract_lane_s
  \/ emit_i8x16_extract_lane_u
  \/ emit_i16x8_extract_lane_s
  \/ emit_i16x8_extract_lane_u
  \/ emit_i32x4_extract_lane
  \/ emit_i64x2_extract_lane
  \/ emit_f32x4_extract_lane
  \/ RunSimd
  \/ StepSimd

SpecLanes == InitLanes /\ [][NextLanes]_vars

-----------------------------------------------------------------------------
(* Claims about the lane lowerings (checked under SpecLanes).               *)

\* Lane width in bytes of the shape a splat / replace_lane lowering produces.
ProducerLaneBytes ==
  [emit_i8x16_splat |-> 1, emit_i16x8_splat |-> 2, emit_i32x4_splat |-> 4,
   emit_i64x2_splat |-> 8,
   emit_i8x16_replace_lane |-> 1, emit_i16x8_replace_lane |-> 2,
   emit_i32x4_replace_lane |-> 4, emit_i64x2_replace_lane |-> 8,
   emit_f32x4_replace_lane |-> 4]
Splats ==
  {"emit_i8x16_splat", "emit_i16x8_splat", "emit_i32x4_splat", "emit_i64x2_splat"}
\* Lane width in bytes an extract_lane lowering reads.
ExtractLaneBytes ==
  [emit_i8x16_extract_lane_s |-> 1, emit_i8x16_extract_lane_u |-> 1,
   emit_i16x8_extract_lane_s |-> 2, emit_i16x8_extract_lane_u |-> 2,
   emit_i32x4_extract_lane |-> 4, emit_i64x2_extract_lane |-> 8,
   emit_f32x4_extract_lane |-> 4]
ZeroExtending == {"emit_i8x16_extract_lane_u", "emit_i16x8_extract_lane_u"}

\* The code of a producer and of an extract_lane of the same shape, reading
\* the register the producer wrote, has run.
RoundTripDone(producers) ==
  /\ status = "done"
  /\ Len(calls) = 2
  /\ calls[1].name \in producers
  /\ ExtractLaneBytes[calls[2].name] = ProducerLaneBytes[calls[1].name]
  /\ (calls[2].name = "emit_f32x4_extract_lane")
       = (calls[1].name = "emit_f32x4_replace_lane")
  /\ calls[2].a.src1 = calls[1].a.dst

\* The scalar v of width w as extract_lane delivers it in a register.
Extracted(v, name) ==
  IF name \in ZeroExtending THEN ZeroExtend(v, kXRegBytes)
  ELSE IF name = "emit_f32x4_extract_lane" THEN NanBox(v)
  ELSE SignExtend(v, kXRegBytes)

\* C11: for each integer lane shape, every scalar v of the lane width and
\* every lane index i, the code of splat(v) followed by extract_lane(i)
\* leaves v in the destination register: sign-extended by the _s (and the
\* i32x4, i64x2) variant, zero-extended by the _u variant.
C11_SplatExtractRoundTrip ==
  RoundTripDone(Splats) =>
    LET w == ProducerLaneBytes[calls[1].name]
        v == Truncate(cfg.in.x, w)
    IN reg[calls[2].a.dst] = Extracted(v, calls[2].name)

C11_Witness ==
  /\ RoundTripDone(Splats)
  /\ calls[1].name = "emit_i8x16_splat"
  /\ calls[2].name = "emit_i8x16_extract_lane_u"
  /\ calls[2].a.imm = 15
  /\ cfg.in.x = <<128, 255, 255, 255, 255, 255, 255, 255>>
  /\ reg[calls[2].a.dst] = <<128, 0, 0, 0, 0, 0, 0, 0>>

Replaces ==
  {"emit_i8x16_replace_lane", "emit_i16x8_replace_lane", "emit_i32x4_replace_lane",
   "emit_i64x2_replace_lane", "emit_f32x4_replace_lane"}

\* Lane k (of w bytes) of the 16-byte vector x.
LaneOf(x, w, k) == SubSeq(x, k * w + 1, (k + 1) * w)

\* C12: for each shape with a replace_lane lowering, every vector x, scalar
\* v and lane index i: after the code of replace_lane(x, i, v), lane i of
\* the result is v and every lane j # i is lane j of x; the code of
\* extract_lane(j) run on the result delivers v for j = i and lane j of x
\* otherwise.
C12_ReplaceThenExtract ==
  RoundTripDone(Replaces) =>
    LET p == calls[1]
        e == calls[2]
        w == ProducerLaneBytes[p.name]
        x == cfg.in.v1
        v == IF p.name = "emit_f32x4_replace_lane" THEN Truncate(cfg.in.f, w)
             ELSE Truncate(cfg.in.x, w)
        expect(k) == IF k = p.a.imm THEN v ELSE LaneOf(x, w, k)
    IN /\ reg[e.a.dst] = Extracted(expect(e.a.imm), e.name)
       /\ \A k \in 0..((kSimd128Size \div w) - 1) :
            ReadLane(reg, toV(p.a.dst), w, k) = expect(k)

C12_Witness ==
  /\ RoundTripDone(Replaces)
  /\ calls[1].name = "emit_i8x16_replace_lane"
  /\ calls[1].a.imm = 15
  /\ calls[1].a.dst = F(1)
  /\ calls[2].name = "emit_i8x16_extract_lane_s"
  /\ calls[2].a.imm = 1
  /\ cfg.in.x = <<1, 2, 3, 132, 5, 6, 7, 136>>
  /\ cfg.in.v1[2] = 17
  /\ reg[calls[2].a.dst] = <<17, 0, 0, 0, 0, 0, 0, 0>>
  /\ reg[V(1)][16] = 1

-----------------------------------------------------------------------------
(* SIMD lowerings of one opcode: the lowering call is made, then the        *)
(* emitted code runs on the operands in v1 and v2.                          *)

\* Source and destination registers of a binary lowering: the second
\* source may be the first, the destination either source or a free register.
BinarySrc2 == {F(1), F(2)}
BinaryDsts == {F(1), F(2), F(3)}

emit_i64x2_extmul_low_i32x4_s ==
  /\ phase = "lower"
  /\ \E dst \in BinaryDsts, src2 \in BinarySrc2 :
       LET src1 == F(1)
           alias == dst = src1 \/ dst = src2
           dst_v == IF alias THEN kSimd128ScratchReg3 ELSE toV(dst)
       IN SimdLower("emit_i64x2_extmul_low_i32x4_s", Args(dst, src1, src2, 0),
                    <<VUset(kScratchReg, 32, "mf2"),
                      vwmul_vv(dst_v, toV(src2), toV(src1))>>
                    \o (IF alias
                        THEN <<VUset(kScratchReg, 64, "m1"),
                               vmv_vv(toV(dst), dst_v)>>
                        ELSE <<>>), "emitted")

emit_i64x2_extmul_low_i32x4_u ==
  /\ phase = "lower"
  /\ \E dst \in BinaryDsts, src2 \in BinarySrc2 :
       LET src1 == F(1)
           alias == dst = src1 \/ dst = src2
           dst_v == IF alias THEN kSimd128ScratchReg3 ELSE toV(dst)
       IN SimdLower("emit_i64x2_extmul_low_i32x4_u", Args(dst, src1, src2, 0),
                    <<VUset(kScratchReg, 32, "mf2"),
                      vwmulu_vv(dst_v, toV(src2), toV(src1))>>
                    \o (IF alias
                        THEN <<VUset(kScratchReg, 64, "m1"),
                               vmv_vv(toV(dst), dst_v)>>
                        ELSE <<>>), "emitted")

\* Mutant: the signed high multiply uses the unsigned widening multiply.
emit_i64x2_extmul_high_i32x4_s_Unsigned ==
  /\ phase = "lower"
  /\ \E dst \in BinaryDsts, src2 \in BinarySrc2 :
       LET src1 == F(1)
       IN SimdLower("emit_i64x2_extmul_high_i32x4_s", Args(dst, src1, src2, 0),
                    <<VUset(kScratchReg, 32, "m1"),
                      vslidedown_vi(kSimd128ScratchReg, toV(src1), 2),
                      vslidedown_vi(kSimd128ScratchReg2, toV(src2), 2),
                      VUset(kScratchReg, 32, "mf2"),
                      vwmulu_vv(toV(dst), kSimd128ScratchReg, kSimd128ScratchReg2)>>,
                    "emitted")

emit_i64x2_extmul_high_i32x4_s ==
  /\ phase = "lower"
  /\ \E dst \in BinaryDsts, src2 \in BinarySrc2 :
       LET src1 == F(1)
       IN SimdLower("emit_i64x2_extmul_high_i32x4_s", Args(dst, src1, src2, 0),
                    <<VUset(kScratchReg, 32, "m1"),
                      vslidedown_vi(kSimd128ScratchReg, toV(src1), 2),
                      vslidedown_vi(kSimd128ScratchReg2, toV(src2), 2),
                      VUset(kScratchReg, 32, "mf2"),
                      vwmul_vv(toV(dst), kSimd128ScratchReg, kSimd128ScratchReg2)>>,
                    "emitted")

emit_i64x2_extmul_high_i32x4_u ==
  /\ phase = "lower"
  /\ \E dst \in BinaryDsts, src2 \in BinarySrc2 :
       LET src1 == F(1)
       IN SimdLower("emit_i64x2_extmul_high_i32x4_u", Args(dst, src1, src2, 0),
                    <<VUset(kScratchReg, 32, "m1"),
                      vslidedown_vi(kSimd128ScratchReg, toV(src1), 2),
                      vslidedown_vi(kSimd128ScratchReg2, toV(src2), 2),
                      VUset(kScratchReg, 32, "mf2"),
                      vwmulu_vv(toV(dst), kSimd128ScratchReg, kSimd128ScratchReg2)>>,
                    "emitted")

\* Mutant: the product is written to dst without the scratch register.
emit_i32x4_extmul_low_i16x8_s_Direct ==
  /\ phase = "lower"
  /\ \E dst \in BinaryDsts, src2 \in BinarySrc2 :
       LET src1 == F(1)
       IN SimdLower("emit_i32x4_extmul_low_i16x8_s", Args(dst, src1, src2, 0),
                    <<VUset(kScratchReg, 16, "mf2"),
                      vwmul_vv(toV(dst), toV(src2), toV(src1))>>, "emitted")

emit_i32x4_extmul_low_i16x8_s ==
  /\ phase = "lower"
  /\ \E dst \in BinaryDsts, src2 \in BinarySrc2 :
       LET src1 == F(1)
           alias == dst = src1 \/ dst = src2
           dst_v == IF alias THEN kSimd128ScratchReg3 ELSE toV(dst)
       IN SimdLower("emit_i32x4_extmul_low_i16x8_s", Args(dst, src1, src2, 0),
                    <<VUset(kScratchReg, 16, "mf2"),
                      vwmul_vv(dst_v, toV(src2), toV(src1))>>
                    \o (IF alias
                        THEN <<VUset(kScratchReg, 16, "m1"),
                               vmv_vv(toV(dst), dst_v)>>
                        ELSE <<>>), "emitted")

emit_i32x4_extmul_low_i16x8_u ==
  /\ phase = "lower"
  /\ \E dst \in BinaryDsts, src2 \in BinarySrc2 :
       LET src1 == F(1)
           alias == dst = src1 \/ dst = src2
           dst_v == IF alias THEN kSimd128ScratchReg3 ELSE toV(dst)
       IN SimdLower("emit_i32x4_extmul_low_i16x8_u", Args(dst, src1, src2, 0),
                    <<VUset(kScratchReg, 16, "mf2"),
                      vwmulu_vv(dst_v, toV(src2), toV(src1))>>
                    \o (IF alias
                        THEN <<VUset(kScratchReg, 16, "m1"),
                               vmv_vv(toV(dst), dst_v)>>
                        ELSE <<>>), "emitted")

emit_i32x4_extmul_high_i16x8_s ==
  /\ phase = "lower"
  /\ \E dst \in BinaryDsts, src2 \in BinarySrc2 :
       LET src1 == F(1)
       IN SimdLower("emit_i32x4_extmul_high_i16x8_s", Args(dst, src1, src2, 0),
                    <<VUset(kScratchReg, 16, "m1"),
                      vslidedown_vi(kSimd128ScratchReg, toV(src1), 4),
                      vslidedown_vi(kSimd128ScratchReg2, toV(src2), 4),
                      VUset(kScratchReg, 16, "mf2"),
                      vwmul_vv(toV(dst), kSimd128ScratchReg, kSimd128ScratchReg2)>>,
                    "emitted")

emit_i32x4_extmul_high_i16x8_u ==
  /\ phase = "lower"
  /\ \E dst \in BinaryDsts, src2 \in BinarySrc2 :
       LET src1 == F(1)
       IN SimdLower("emit_i32x4_extmul_high_i16x8_u", Args(dst, src1, src2, 0),
                    <<VUset(kScratchReg, 16, "m1"),
                      vslidedown_vi(kSimd128ScratchReg, toV(src1), 4),
                      vslidedown_vi(kSimd128ScratchReg2, toV(src2), 4),
                      VUset(kScratchReg, 16, "mf2"),
                      vwmulu_vv(toV(dst), kSimd128ScratchReg, kSimd128ScratchReg2)>>,
                    "emitted")

emit_i16x8_extmul_low_i8x16_s ==
  /\ phase = "lower"
  /\ \E dst \in BinaryDsts, src2 \in BinarySrc2 :
       LET src1 == F(1)
           alias == dst = src1 \/ dst = src2
           dst_v == IF alias THEN kSimd128ScratchReg3 ELSE toV(dst)
       IN SimdLower("emit_i16x8_extmul_low_i8x16_s", Args(dst, src1, src2, 0),
                    <<VUset(kScratchReg, 8, "mf2"),
                      vwmul_vv(dst_v, toV(src2), toV(src1))>>
                    \o (IF alias
                        THEN <<VUset(kScratchReg, 8, "m1"),
                               vmv_vv(toV(dst), dst_v)>>
                        ELSE <<>>), "emitted")

emit_i16x8_extmul_low_i8x16_u ==
  /\ phase = "lower"
  /\ \E dst \in BinaryDsts, src2 \in BinarySrc2 :
       LET src1 == F(1)
           alias == dst = src1 \/ dst = src2
           dst_v == IF alias THEN kSimd128ScratchReg3 ELSE toV(dst)
       IN SimdLower("emit_i16x8_extmul_low_i8x16_u", Args(dst, src1, src2, 0),
                    <<VUset(kScratchReg, 8, "mf2"),
                      vwmulu_vv(dst_v, toV(src2), toV(src1))>>
                    \o (IF alias
                        THEN <<VUset(kScratchReg, 8, "m1"),
                               vmv_vv(toV(dst), dst_v)>>
                        ELSE <<>>), "emitted")

emit_i16x8_extmul_high_i8x16_s ==
  /\ phase = "lower"
  /\ \E dst \in BinaryDsts, src2 \in BinarySrc2 :
       LET src1 == F(1)
       IN SimdLower("emit_i16x8_extmul_high_i8x16_s", Args(dst, src1, src2, 0),
                    <<VUset(kScratchReg, 8, "m1"),
                      vslidedown_vi(kSimd128ScratchReg, toV(src1), 8),
                      vslidedown_vi(kSimd128ScratchReg2, toV(src2), 8),
                      VUset(kScratchReg, 8, "mf2"),
                      vwmul_vv(toV(dst), kSimd128ScratchReg, kSimd128ScratchReg2)>>,
                    "emitted")

emit_i16x8_extmul_high_i8x16_u ==
  /\ phase = "lower"
  /\ \E dst \in BinaryDsts, src2 \in BinarySrc2 :
       LET src1 == F(1)
       IN SimdLower("emit_i16x8_extmul_high_i8x16_u", Args(dst, src1, src2, 0),
                    <<VUset(kScratchReg, 8, "m1"),
                      vslidedown_vi(kSimd128ScratchReg, toV(src1), 8),
                      vslidedown_vi(kSimd128ScratchReg2, toV(src2), 8),
                      VUset(kScratchReg, 8, "mf2"),
                      vwmulu_vv(toV(dst), kSimd128ScratchReg, kSimd128ScratchReg2)>>,
                    "emitted")

\* Mutant: the division runs on one register of the two-register group only.
emit_i8x16_rounding_average_u_M1 ==
  /\ phase = "lower"
  /\ \E dst \in BinaryDsts, rhs \in BinarySrc2 :
       LET lhs == F(1)
       IN SimdLower("emit_i8x16_rounding_average_u", Args(dst, lhs, rhs, 0),
                    <<VUset(kScratchReg, 8, "m1"),
                      vwaddu_vv(kSimd128ScratchReg, toV(lhs), toV(rhs)),
                      li(kScratchReg, 1),
                      vwaddu_wx(kSimd128ScratchReg3, kSimd128ScratchReg, kScratchReg),
                      li(kScratchReg, 2),
                      VUset(kScratchReg2, 16, "m1"),
                      vdivu_vx(kSimd128ScratchReg3, kSimd128ScratchReg3, kScratchReg),
                      VUset(kScratchReg2, 8, "m1"),
                      vnclipu_vi(toV(dst), kSimd128ScratchReg3, 0)>>, "emitted")

emit_i8x16_rounding_average_u ==
  /\ phase = "lower"
  /\ \E dst \in BinaryDsts, rhs \in BinarySrc2 :
       LET lhs == F(1)
       IN SimdLower("emit_i8x16_rounding_average_u", Args(dst, lhs, rhs, 0),
                    <<VUset(kScratchReg, 8, "m1"),
                      vwaddu_vv(kSimd128ScratchReg, toV(lhs), toV(rhs)),
                      li(kScratchReg, 1),
                      vwaddu_wx(kSimd128ScratchReg3, kSimd128ScratchReg, kScratchReg),
                      li(kScratchReg, 2),
                      VUset(kScratchReg2, 16, "m2"),
                      vdivu_vx(kSimd128ScratchReg3, kSimd128ScratchReg3, kScratchReg),
                      VUset(kScratchReg2, 8, "m1"),
                      vnclipu_vi(toV(dst), kSimd128ScratchReg3, 0)>>, "emitted")

emit_i16x8_rounding_average_u ==
  /\ phase = "lower"
  /\ \E dst \in BinaryDsts, rhs \in BinarySrc2 :
       LET lhs == F(1)
       IN SimdLower("emit_i16x8_rounding_average_u", Args(dst, lhs, rhs, 0),
                    <<VUset(kScratchReg2, 16, "m1"),
                      vwaddu_vv(kSimd128ScratchReg, toV(lhs), toV(rhs)),
                      li(kScratchReg, 1),
                      vwaddu_wx(kSimd128ScratchReg3, kSimd128ScratchReg, kScratchReg),
                      li(kScratchReg, 2),
                      VUset(kScratchReg2, 32, "m2"),
                      vdivu_vx(kSimd128ScratchReg3, kSimd128ScratchReg3, kScratchReg),
                      VUset(kScratchReg2, 16, "m1"),
                      vnclipu_vi(toV(dst), kSimd128ScratchReg3, 0)>>, "emitted")

\* const int32_t kNaN = 0x7FC00000
kNaN == 2143289344

\* Mutant: the NaN test of the right operand is made on the left operand.
emit_f32x4_min_LhsTwice ==
  /\ phase = "lower"
  /\ \E dst \in BinaryDsts, rhs \in BinarySrc2 :
       LET lhs == F(1)
       IN SimdLower("emit_f32x4_min", Args(dst, lhs, rhs, 0),
                    <<VUset(kScratchReg, 32, "m1"),
                      vmfeq_vv(v0, toV(lhs), toV(lhs)),
                      vmfeq_vv(kSimd128ScratchReg, toV(lhs), toV(lhs)),
                      vand_vv(v0, v0, kSimd128ScratchReg),
                      li(kScratchReg, kNaN),
                      vmv_vx(kSimd128ScratchReg, kScratchReg),
                      vfmin_vv(kSimd128ScratchReg, toV(rhs), toV(lhs), "Mask"),
                      vmv_vv(toV(dst), kSimd128ScratchReg)>>, "emitted")

emit_f32x4_min ==
  /\ phase = "lower"
  /\ \E dst \in BinaryDsts, rhs \in BinarySrc2 :
       LET lhs == F(1)
       IN SimdLower("emit_f32x4_min", Args(dst, lhs, rhs, 0),
                    <<VUset(kScratchReg, 32, "m1"),
                      vmfeq_vv(v0, toV(lhs), toV(lhs)),
                      vmfeq_vv(kSimd128ScratchReg, toV(rhs), toV(rhs)),
                      vand_vv(v0, v0, kSimd128ScratchReg),
                      li(kScratchReg, kNaN),
                      vmv_vx(kSimd128ScratchReg, kScratchReg),
                      vfmin_vv(kSimd128ScratchReg, toV(rhs), toV(lhs), "Mask"),
                      vmv_vv(toV(dst), kSimd128ScratchReg)>>, "emitted")

emit_f32x4_max ==
  /\ phase = "lower"
  /\ \E dst \in BinaryDsts, rhs \in BinarySrc2 :
       LET lhs == F(1)
       IN SimdLower("emit_f32x4_max", Args(dst, lhs, rhs, 0),
                    <<VUset(kScratchReg, 32, "m1"),
                      vmfeq_vv(v0, toV(lhs), toV(lhs)),
                      vmfeq_vv(kSimd128ScratchReg, toV(rhs), toV(rhs)),
                      vand_vv(v0, v0, kSimd128ScratchReg),
                      li(kScratchReg, kNaN),
                      vmv_vx(kSimd128ScratchReg, kScratchReg),
                      vfmax_vv(kSimd128ScratchReg, toV(rhs), toV(lhs), "Mask"),
                      vmv_vv(toV(dst), kSimd128ScratchReg)>>, "emitted")

\* Destination of a unary lowering: the source or a free register.
UnaryDsts == {F(1), F(3)}

emit_i32x4_sconvert_f32x4 ==
  /\ phase = "lower"
  /\ \E dst \in UnaryDsts :
       LET src == F(1)
       IN SimdLower("emit_i32x4_sconvert_f32x4", Args(dst, src, no_reg, 0),
                    <<VUset(kScratchReg, 32, "m1"),
                      VUsetRm("RTZ"),
                      vmfeq_vv(v0, toV(src), toV(src)),
                      vmv_vx(toV(dst), zero_reg),
                      vfcvt_x_f_v(toV(dst), toV(src), "Mask")>>, "emitted")

emit_i32x4_uconvert_f32x4 ==
  /\ phase = "lower"
  /\ \E dst \in UnaryDsts :
       LET src == F(1)
       IN SimdLower("emit_i32x4_uconvert_f32x4", Args(dst, src, no_reg, 0),
                    <<VUset(kScratchReg, 32, "m1"),
                      VUsetRm("RTZ"),
                      vmfeq_vv(v0, toV(src), toV(src)),
                      vmv_vx(toV(dst), zero_reg),
                      vfcvt_xu_f_v(toV(dst), toV(src), "Mask")>>, "emitted")

emit_i32x4_trunc_sat_f64x2_s_zero ==
  /\ phase = "lower"
  /\ \E dst \in UnaryDsts :
       LET src == F(1)
       IN SimdLower("emit_i32x4_trunc_sat_f64x2_s_zero", Args(dst, src, no_reg, 0),
                    <<VUset(kScratchReg, 64, "m1"),
                      vmv_vx(kSimd128ScratchReg, zero_reg),
                      vmfeq_vv(v0, toV(src), toV(src)),
                      vmv_vv(kSimd128ScratchReg3, toV(src)),
                      VUset(kScratchReg, 32, "m1"),
                      VUsetRm("RTZ"),
                      vfncvt_x_f_w(kSimd128ScratchReg, kSimd128ScratchReg3, "Mask"),
                      vmv_vv(toV(dst), kSimd128ScratchReg)>>, "emitted")

emit_i32x4_trunc_sat_f64x2_u_zero ==
  /\ phase = "lower"
  /\ \E dst \in UnaryDsts :
       LET src == F(1)
       IN SimdLower("emit_i32x4_trunc_sat_f64x2_u_zero", Args(dst, src, no_reg, 0),
                    <<VUset(kScratchReg, 64, "m1"),
                      vmv_vx(kSimd128ScratchReg, zero_reg),
                      vmfeq_vv(v0, toV(src), toV(src)),
                      vmv_vv(kSimd128ScratchReg3, toV(src)),
                      VUset(kScratchReg, 32, "m1"),
                      VUsetRm("RTZ"),
                      vfncvt_xu_f_w(kSimd128ScratchReg, kSimd128ScratchReg3, "Mask"),
                      vmv_vv(toV(dst), kSimd128ScratchReg)>>, "emitted")

-----------------------------------------------------------------------------
(* Lowerings the RISC-V port does not implement: they report a bailout.    *)

emit_i16x8_dot_i8x16_i7x16_s ==
  /\ phase = "lower"
  /\ \E dst \in BinaryDsts, rhs \in BinarySrc2 :
       SimdBailout("emit_i16x8_dot_i8x16_i7x16_s", Args(dst, F(1), rhs, 0),
                   <<>>, <<bailout("kSimd", "emit_i16x8_dot_i8x16_i7x16_s")>>)

emit_i32x4_dot_i8x16_i7x16_add_s ==
  /\ phase = "lower"
  /\ \E dst \in BinaryDsts, src2 \in BinarySrc2, src3 \in BinarySrc2 :
       SimdBailout("emit_i32x4_dot_i8x16_i7x16_add_s",
                   [dst |-> dst, src1 |-> F(1), src2 |-> src2, src3 |-> src3],
                   <<>>, <<bailout("kSimd", "emit_i32x4_dot_i8x16_i7x16_add_s")>>)

emit_f32x4_qfma_Twice ==
  /\ phase = "lower"
  /\ \E dst \in BinaryDsts, src2 \in BinarySrc2, src3 \in BinarySrc2 :
       SimdBailout("emit_f32x4_qfma",
                   [dst |-> dst, src1 |-> F(1), src2 |-> src2, src3 |-> src3],
                   <<>>, <<bailout("kRelaxedSimd", "emit_f32x4_qfma"),
                           bailout("kRelaxedSimd", "emit_f32x4_qfma")>>)

emit_f32x4_qfma ==
  /\ phase = "lower"
  /\ \E dst \in BinaryDsts, src2 \in BinarySrc2, src3 \in BinarySrc2 :
       SimdBailout("emit_f32x4_qfma",
                   [dst |-> dst, src1 |-> F(1), src2 |-> src2, src3 |-> src3],
                   <<>>, <<bailout("kRelaxedSimd", "emit_f32x4_qfma")>>)

emit_f32x4_qfms ==
  /\ phase = "lower"
  /\ \E dst \in BinaryDsts, src2 \in BinarySrc2, src3 \in BinarySrc2 :
       SimdBailout("emit_f32x4_qfms",
                   [dst |-> dst, src1 |-> F(1), src2 |-> src2, src3 |-> src3],
                   <<>>, <<bailout("kRelaxedSimd", "emit_f32x4_qfms")>>)

emit_f64x2_qfma ==
  /\ phase = "lower"
  /\ \E dst \in BinaryDsts, src2 \in BinarySrc2, src3 \in BinarySrc2 :
       SimdBailout("emit_f64x2_qfma",
                   [dst |-> dst, src1 |-> F(1), src2 |-> src2, src3 |-> src3],
                   <<>>, <<bailout("kRelaxedSimd", "emit_f64x2_qfma")>>)

emit_f64x2_qfms ==
  /\ phase = "lower"
  /\ \E dst \in BinaryDsts, src2 \in BinarySrc2, src3 \in BinarySrc2 :
       SimdBailout("emit_f64x2_qfms",
                   [dst |-> dst, src1 |-> F(1), src2 |-> src2, src3 |-> src3],
                   <<>>, <<bailout("kRelaxedSimd", "emit_f64x2_qfms")>>)

-----------------------------------------------------------------------------
(* Boolean reductions: v128.any_true and iNxM.all_true.                     *)

\* Destination general-purpose registers of a reduction.
ReduceDsts == {X(1), X(2)}

emit_v128_anytrue_Raw ==
  /\ phase = "lower"
  /\ \E dst \in ReduceDsts :
       LET src == F(1)
       IN SimdLower("emit_v128_anytrue", Args(dst, src, no_reg, 0),
                    <<VUset(kScratchReg, 8, "m1"),
                      vmv_sx(kSimd128ScratchReg, zero_reg),
                      vredmaxu_vs(kSimd128ScratchReg, toV(src), kSimd128ScratchReg),
                      vmv_xs(dst, kSimd128ScratchReg)>>, "emitted")

emit_v128_anytrue ==
  /\ phase = "lower"
  /\ \E dst \in ReduceDsts :
       LET src == F(1)
       IN SimdLower("emit_v128_anytrue", Args(dst, src, no_reg, 0),
                    <<VUset(kScratchReg, 8, "m1"),
                      vmv_sx(kSimd128ScratchReg, zero_reg),
                      vredmaxu_vs(kSimd128ScratchReg, toV(src), kSimd128ScratchReg),
                      vmv_xs(dst, kSimd128ScratchReg),
                      beq(dst, zero_reg, 1),
                      li(dst, 1)>>, "emitted")

emit_i8x16_alltrue ==
  /\ phase = "lower"
  /\ \E dst \in ReduceDsts :
       LET src == F(1)
       IN SimdLower("emit_i8x16_alltrue", Args(dst, src, no_reg, 0),
                    <<VUset(kScratchReg, 8, "m1"),
                      li(kScratchReg, -1),
                      vmv_sx(kSimd128ScratchReg, kScratchReg),
                      vredminu_vs(kSimd128ScratchReg, toV(src), kSimd128ScratchReg),
                      vmv_xs(dst, kSimd128ScratchReg),
                      beqz(dst, 1),
                      li(dst, 1)>>, "emitted")

emit_i16x8_alltrue ==
  /\ phase = "lower"
  /\ \E dst \in ReduceDsts :
       LET src == F(1)
       IN SimdLower("emit_i16x8_alltrue", Args(dst, src, no_reg, 0),
                    <<VUset(kScratchReg, 16, "m1"),
                      li(kScratchReg, -1),
                      vmv_sx(kSimd128ScratchReg, kScratchReg),
                      vredminu_vs(kSimd128ScratchReg, toV(src), kSimd128ScratchReg),
                      vmv_xs(dst, kSimd128ScratchReg),
                      beqz(dst, 1),
                      li(dst, 1)>>, "emitted")

emit_i32x4_alltrue ==
  /\ phase = "lower"
  /\ \E dst \in ReduceDsts :
       LET src == F(1)
       IN SimdLower("emit_i32x4_alltrue", Args(dst, src, no_reg, 0),
                    <<VUset(kScratchReg, 32, "m1"),
                      li(kScratchReg, -1),
                      vmv_sx(kSimd128ScratchReg, kScratchReg),
                      vredminu_vs(kSimd128ScratchReg, toV(src), kSimd128ScratchReg),
                      vmv_xs(dst, kSimd128ScratchReg),
                      beqz(dst, 1),
                      li(dst, 1)>>, "emitted")

emit_i64x2_alltrue ==
  /\ phase = "lower"
  /\ \E dst \in ReduceDsts :
       LET src == F(1)
       IN SimdLower("emit_i64x2_alltrue", Args(dst, src, no_reg, 0),
                    <<VUset(kScratchReg, 64, "m1"),
                      li(kScratchReg, -1),
                      vmv_sx(kSimd128ScratchReg, kScratchReg),
                      vredminu_vs(kSimd128ScratchReg, toV(src), kSimd128ScratchReg),
                      vmv_xs(dst, kSimd128ScratchReg),
                      beqz(dst, 1),
                      li(dst, 1)>>, "emitted")

-----------------------------------------------------------------------------
(* Pseudo-minimum and pseudo-maximum.                                       *)

\* Mutant: the compare takes its operands in the order of pmax.
emit_f32x4_pmin_Swapped ==
  /\ phase = "lower"
  /\ \E dst \in BinaryDsts, rhs \in BinarySrc2 :
       LET lhs == F(1)
       IN SimdLower("emit_f32x4_pmin", Args(dst, lhs, rhs, 0),
                    <<VUset(kScratchReg, 32, "m1"),
                      vmflt_vv(v0, toV(lhs), toV(rhs)),
                      vmerge_vv(toV(dst), toV(rhs), toV(lhs))>>, "emitted")

emit_f32x4_pmin ==
  /\ phase = "lower"
  /\ \E dst \in BinaryDsts, rhs \in BinarySrc2 :
       LET lhs == F(1)
       IN SimdLower("emit_f32x4_pmin", Args(dst, lhs, rhs, 0),
                    <<VUset(kScratchReg, 32, "m1"),
                      vmflt_vv(v0, toV(rhs), toV(lhs)),
                      vmerge_vv(toV(dst), toV(rhs), toV(lhs))>>, "emitted")

emit_f32x4_pmax ==
  /\ phase = "lower"
  /\ \E dst \in BinaryDsts, rhs \in BinarySrc2 :
       LET lhs == F(1)
       IN SimdLower("emit_f32x4_pmax", Args(dst, lhs, rhs, 0),
                    <<VUset(kScratchReg, 32, "m1"),
                      vmflt_vv(v0, toV(lhs), toV(rhs)),
                      vmerge_vv(toV(dst), toV(rhs), toV(lhs))>>, "emitted")

emit_f64x2_pmin ==
  /\ phase = "lower"
  /\ \E dst \in BinaryDsts, rhs \in BinarySrc2 :
       LET lhs == F(1)
       IN SimdLower("emit_f64x2_pmin", Args(dst, lhs, rhs, 0),
                    <<VUset(kScratchReg, 64, "m1"),
                      vmflt_vv(v0, toV(rhs), toV(lhs)),
                      vmerge_vv(toV(dst), toV(rhs), toV(lhs))>>, "emitted")

emit_f64x2_pmax ==
  /\ phase = "lower"
  /\ \E dst \in BinaryDsts, rhs \in BinarySrc2 :
       LET lhs == F(1)
       IN SimdLower("emit_f64x2_pmax", Args(dst, lhs, rhs, 0),
                    <<VUset(kScratchReg, 64, "m1"),
                      vmflt_vv(v0, toV(lhs), toV(rhs)),
                      vmerge_vv(toV(dst), toV(rhs), toV(lhs))>>, "emitted")

-----------------------------------------------------------------------------
(* i8x16.popcnt.  The lowering is the only opcode of the function or        *)
(* follows an i8x16.rounding_average_u; then the code runs.                 *)

\* Iterations of the popcnt loop that are counted.
MaxIterations == 9

emit_i8x16_popcnt ==
  /\ phase \in {"lower", "emitted"}
  /\ \A k \in DOMAIN calls : calls[k].name # "emit_i8x16_popcnt"
  /\ \E dst \in UnaryDsts, src \in BinarySrc2 :
       LET src_v == toV(src)
           dst_v == toV(dst)
       IN SimdLower("emit_i8x16_popcnt", Args(dst, src, no_reg, 0),
                    <<VUset(kScratchReg, 8, "m1"),
                      vmv_vv(kSimd128ScratchReg, src_v),
                      vmv_vv(dst_v, kSimd128RegZero),
                      vmsne_vv(v0, kSimd128ScratchReg, kSimd128RegZero),
                      vadd_vi(dst_v, dst_v, 1, "Mask"),
                      vadd_vi(kSimd128ScratchReg2, kSimd128ScratchReg, -1, "Mask"),
                      vand_vv(kSimd128ScratchReg, kSimd128ScratchReg,
                              kSimd128ScratchReg2),
                      vfirst_m(kScratchReg, kSimd128ScratchReg),
                      bgez(kScratchReg, 5)>>, "emitted")

\* Offset of the label t of the popcnt call c: the head of its loop.
PopcntLoopHead(c) == c.from + 3 * kInstrSize

\* Byte vectors popcnt is run on: all zero, all ones, lanes 0 and 1 zero with
\* later lanes set, one bit in lane 0 and in lane 8, and mixed lanes.
PopcntVectors ==
  {[k \in 1..kSimd128Size |-> 0],
   [k \in 1..kSimd128Size |-> 255],
   <<0, 0, 255, 3, 0, 0, 0, 0, 0, 0, 0, 0, 0, 0, 0, 128>>,
   <<1, 0, 0, 0, 0, 0, 0, 0, 1, 0, 0, 0, 0, 0, 0, 0>>,
   <<1, 2, 3, 132, 255, 127, 0, 128, 254, 255, 255, 255, 7, 0, 200, 100>>}

PopcntInputs ==
  {[v1 |-> a, v2 |-> b, x |-> JunkScalar, f |-> JunkScalar] :
     a \in PopcntVectors, b \in PopcntVectors}

\* kSimd128RegZero holds zero when the function is entered.
InitPopcnt ==
  /\ code = EmptyBuffer
  /\ pc_offset = 0
  /\ phase = "lower"
  /\ \E in \in PopcntInputs :
       cfg = [exit |-> -1, in |-> in, bailouts |-> <<>>, iterations |-> 0]
  /\ safepoints = <<>>
  /\ tagged_slots = <<>>
  /\ ool_spill = -1
  /\ calls = <<>>
  /\ pc = 0
  /\ reg = [SimdRegs0(cfg.in) EXCEPT ![kSimd128RegZero] = Bytes(0, kSimd128Size)]
  /\ mem = [a \in {} |-> 0]
  /\ status = "idle"

\* One instruction of the emitted code runs; the executions of the head of
\* the popcnt loop are counted up to MaxIterations.
StepPopcnt ==
  /\ status = "run"
  /\ IF pc = cfg.exit
     THEN /\ status' = "done"
          /\ UNCHANGED <<pc, reg, mem, cfg>>
     ELSE /\ pc \in DOMAIN code
          /\ LET m == ExecV(code[pc], [pc |-> pc, reg |-> reg, mem |-> mem,
                                       status |-> status])
                 head == \E k \in DOMAIN calls :
                           /\ calls[k].name = "emit_i8x16_popcnt"
                           /\ pc = PopcntLoopHead(calls[k])
             IN /\ pc' = m.pc
                /\ reg' = m.reg
                /\ mem' = m.mem
                /\ status' = m.status
                /\ cfg' = IF head /\ cfg.iterations < MaxIterations
                          THEN [cfg EXCEPT !.iterations = @ + 1] ELSE cfg
  /\ UNCHANGED <<code, pc_offset, phase, safepoints, tagged_slots, ool_spill,
                 calls>>

NextPopcnt ==
  \/ emit_i8x16_rounding_average_u
  \/ emit_i8x16_popcnt
  \/ RunSimd
  \/ StepPopcnt

SpecPopcnt == InitPopcnt /\ [][NextPopcnt]_vars

-----------------------------------------------------------------------------
(* iNxM.bitmask.                                                            *)

emit_i8x16_bitmask ==
  /\ phase = "lower"
  /\ \E dst \in ReduceDsts :
       LET src == F(1)
       IN SimdLower("emit_i8x16_bitmask", Args(dst, src, no_reg, 0),
                    <<VUset(kScratchReg, 8, "m1"),
                      vmv_vx(kSimd128RegZero, zero_reg),
                      vmslt_vv(kSimd128ScratchReg, toV(src), kSimd128RegZero),
                      VUset(kScratchReg, 32, "m1"),
                      vmv_xs(dst, kSimd128ScratchReg)>>, "emitted")

emit_i16x8_bitmask ==
  /\ phase = "lower"
  /\ \E dst \in ReduceDsts :
       LET src == F(1)
       IN SimdLower("emit_i16x8_bitmask", Args(dst, src, no_reg, 0),
                    <<VUset(kScratchReg, 16, "m1"),
                      vmv_vx(kSimd128RegZero, zero_reg),
                      vmslt_vv(kSimd128ScratchReg, toV(src), kSimd128RegZero),
                      VUset(kScratchReg, 32, "m1"),
                      vmv_xs(dst, kSimd128ScratchReg)>>, "emitted")

emit_i32x4_bitmask ==
  /\ phase = "lower"
  /\ \E dst \in ReduceDsts :
       LET src == F(1)
       IN SimdLower("emit_i32x4_bitmask", Args(dst, src, no_reg, 0),
                    <<VUset(kScratchReg, 32, "m1"),
                      vmv_vx(kSimd128RegZero, zero_reg),
                      vmslt_vv(kSimd128ScratchReg, toV(src), kSimd128RegZero),
                      vmv_xs(dst, kSimd128ScratchReg)>>, "emitted")

emit_i64x2_bitmask ==
  /\ phase = "lower"
  /\ \E dst \in ReduceDsts :
       LET src == F(1)
       IN SimdLower("emit_i64x2_bitmask", Args(dst, src, no_reg, 0),
                    <<VUset(kScratchReg, 64, "m1"),
                      vmv_vx(kSimd128RegZero, zero_reg),
                      vmslt_vv(kSimd128ScratchReg, toV(src), kSimd128RegZero),
                      VUset(kScratchReg, 32, "m1"),
                      vmv_xs(dst, kSimd128ScratchReg)>>, "emitted")

-----------------------------------------------------------------------------
(* Operands of the one-opcode SIMD lowerings.                               *)

\* Integer vectors: all zero, all ones, one nonzero byte, and a vector whose
\* 16-bit and wider lanes are all nonzero while two of its bytes are zero.
IntVectors ==
  {[k \in 1..kSimd128Size |-> 0],
   [k \in 1..kSimd128Size |-> 255],
   <<0, 0, 0, 0, 0, 128, 0, 0, 0, 0, 0, 0, 0, 0, 0, 0>>,
   <<1, 2, 3, 132, 255, 127, 0, 128, 254, 255, 255, 255, 7, 0, 200, 100>>}

\* f32x4 vectors: <1.5, NaN, -2.5, +0.0>, <-0.0, 3e9, signalling NaN, -inf>
\* and <+0.0, 0.75, a negative NaN with payload, -0.75>.
F32Vectors ==
  {<<0, 0, 192, 63>> \o <<0, 0, 192, 127>> \o <<0, 0, 32, 192>> \o <<0, 0, 0, 0>>,
   <<0, 0, 0, 128>> \o <<94, 208, 50, 79>> \o <<1, 0, 128, 127>> \o <<0, 0, 128, 255>>,
   <<0, 0, 0, 0>> \o <<0, 0, 64, 63>> \o <<1, 0, 192, 255>> \o <<0, 0, 64, 191>>}

\* f64x2 vectors: <-1.5, NaN>, <2147483647.5, -3e9> and <4294967295.5, 0.5>.
F64Vectors ==
  {<<0, 0, 0, 0, 0, 0, 248, 191>> \o <<0, 0, 0, 0, 0, 0, 248, 127>>,
   <<0, 0, 224, 255, 255, 255, 223, 65>> \o <<0, 0, 0, 192, 11, 90, 230, 193>>,
   <<0, 0, 240, 255, 255, 255, 239, 65>> \o <<0, 0, 0, 0, 0, 0, 224, 63>>}

SimdVectors == IntVectors \cup F32Vectors \cup F64Vectors

SimdInputs ==
  {[v1 |-> a, v2 |-> b, x |-> JunkScalar, f |-> JunkScalar] :
     a \in SimdVectors, b \in SimdVectors}

InitOneSimd == InitSimd(SimdInputs, "lower")

-----------------------------------------------------------------------------
(* iNxM.shl / shr_s / shr_u by a register.                                  *)

\* The twelve shift-by-register lowerings: element width and vector shift.
ShiftLowerings ==
  [emit_i8x16_shl |-> [sew |-> 8, op |-> "vsll_vx"],
   emit_i8x16_shr_s |-> [sew |-> 8, op |-> "vsra_vx"],
   emit_i8x16_shr_u |-> [sew |-> 8, op |-> "vsrl_vx"],
   emit_i16x8_shl |-> [sew |-> 16, op |-> "vsll_vx"],
   emit_i16x8_shr_s |-> [sew |-> 16, op |-> "vsra_vx"],
   emit_i16x8_shr_u |-> [sew |-> 16, op |-> "vsrl_vx"],
   emit_i32x4_shl |-> [sew |-> 32, op |-> "vsll_vx"],
   emit_i32x4_shr_s |-> [sew |-> 32, op |-> "vsra_vx"],
   emit_i32x4_shr_u |-> [sew |-> 32, op |-> "vsrl_vx"],
   emit_i64x2_shl |-> [sew |-> 64, op |-> "vsll_vx"],
   emit_i64x2_shr_s |-> [sew |-> 64, op |-> "vsra_vx"],
   emit_i64x2_shr_u |-> [sew |-> 64, op |-> "vsrl_vx"]]

\* emit_iNxM_shl, emit_iNxM_shr_s, emit_iNxM_shr_u: the same three
\* instructions for every shape, with the shape's element width.
emit_iNxM_shift ==
  /\ phase = "lower"
  /\ \E name \in DOMAIN ShiftLowerings, dst \in {F(1), F(2)} :
       LET lhs == F(1)
           rhs == X(1)
           s == ShiftLowerings[name]
       IN SimdLower(name, Args(dst, lhs, rhs, 0),
                    <<VUset(kScratchReg, s.sew, "m1"),
                      andi(rhs, rhs, s.sew - 1),
                      Ins(s.op, toV(dst), toV(lhs), rhs, 0, "")>>, "emitted")

\* Shift counts: below, at and above the element widths, and -1.
ShiftCounts == {0, 3, 7, 8, 9, 17, 31, 33, 64, 65, -1}

ShiftInputs ==
  {[v1 |-> a, v2 |-> JunkVector, x |-> Bytes(n, kXRegBytes), f |-> JunkScalar] :
     a \in IntVectors, n \in ShiftCounts}

InitShift == InitSimd(ShiftInputs, "lower")

NextShift ==
  \/ emit_iNxM_shift
  \/ RunSimd
  \/ StepSimd

SpecShift == InitShift /\ [][NextShift]_vars

-----------------------------------------------------------------------------
(* emit_set_if_nan and emit_s128_set_if_nan, lowered and run.               *)

\* scratch is the register UseScratchRegisterScope hands out.
emit_set_if_nan ==
  /\ CanLower
  /\ \E kind \in {"kF32", "kF64"} :
       LET dst == X(1)
           src == F(2)
           scratch == kScratchReg
       IN LowerWith("emit_set_if_nan", kind, 0,
                    <<li(scratch, 1),
                      IF kind = "kF32"
                      THEN feq_s(scratch, src, src)
                      ELSE feq_d(scratch, src, src),
                      not_(scratch, scratch),
                      StoreWord(scratch, dst, 0)>>, "lower")
  /\ UNCHANGED <<cfg, safepoints, tagged_slots, ool_spill, machine>>

\* f32x4 vectors without NaN and with four NaNs.
F32Plain == <<0, 0, 192, 63>> \o <<0, 0, 32, 192>> \o <<0, 0, 0, 0>> \o <<0, 0, 64, 63>>
F32AllNaN == <<0, 0, 192, 127>> \o <<1, 0, 128, 127>> \o <<0, 0, 192, 255>> \o <<0, 0, 192, 127>>

\* Scalars in a floating-point register: 1.5f and a NaN (NaN-boxed), -1.5
\* and a NaN as doubles.
NanScalars ==
  [kF32 |-> {<<0, 0, 192, 63, 255, 255, 255, 255>>, <<0, 0, 192, 127, 255, 255, 255, 255>>},
   kF64 |-> {<<0, 0, 0, 0, 0, 0, 248, 191>>, <<0, 0, 0, 0, 0, 0, 248, 127>>}]

\* The operands with the lane kind they are values of; the vector unit is
\* configured for that lane kind by the code that ran before.
NanInputs ==
  {[kind |-> "kF32", v1 |-> a, v2 |-> F32Plain, x |-> JunkScalar, f |-> s] :
     a \in F32Vectors \cup {F32Plain, F32AllNaN}, s \in NanScalars.kF32}
  \cup
  {[kind |-> "kF64", v1 |-> a, v2 |-> F32Plain, x |-> JunkScalar, f |-> s] :
     a \in F64Vectors, s \in NanScalars.kF64}

NanRegisters == SimdRegisters \cup {F(3)}

InitNan ==
  /\ code = EmptyBuffer
  /\ pc_offset = 0
  /\ phase = "lower"
  /\ \E in \in NanInputs : cfg = [exit |-> -1, in |-> in, bailouts |-> <<>>]
  /\ safepoints = <<>>
  /\ tagged_slots = <<>>
  /\ ool_spill = -1
  /\ calls = <<>>
  /\ pc = 0
  /\ reg = [q \in NanRegisters |->
              IF q = vtype
              THEN [sew |-> IF cfg.in.kind = "kF32" THEN 32 ELSE 64, lmul |-> "m1"]
              ELSE IF q = F(3) THEN JunkScalar ELSE SimdRegs0(cfg.in)[q]]
  /\ mem = [a \in {} |-> 0]
  /\ status = "idle"

\* The code lowered so far is entered at its first instruction.
RunNan ==
  /\ phase = "lower"
  /\ status = "idle"
  /\ calls # <<>>
  /\ status' = "run"
  /\ pc' = 0
  /\ cfg' = [cfg EXCEPT !.exit = pc_offset]
  /\ UNCHANGED <<code, pc_offset, phase, safepoints, tagged_slots, ool_spill,
                 calls, reg, mem>>

NextNan ==
  \/ emit_set_if_nan
  \/ emit_s128_set_if_nan
  \/ RunNan
  \/ StepSimd

SpecNan == InitNan /\ [][NextNan]_vars

-----------------------------------------------------------------------------
(* MachineLoweringReducer::ReduceNewArray: the graph it emits, executed.    *)
(* cfg holds the inputs (length, kind, allocation_type), pc the block that  *)
(* runs next, reg the values of the graph (index, array, result), mem the   *)
(* fields of the heap objects and calls the operations with an effect, in   *)
(* the order they ran.                                                      *)

\* Width of a WordPtr in the model; values are kept modulo 2^WordBits.
WordBits == 5
WordMod == 2 ^ WordBits

WordPtrEqual(a, b) == a = b
WordPtrAdd(a, b) == (a + b) % WordMod
WordPtrShiftLeft(a, n) == (a * 2 ^ n) % WordMod
UintPtrLessThan(a, b) == a < b
UintPtrLessThanOrEqual(a, b) == a <= b
SmiTag(a) == WordPtrShiftLeft(a, 1)

NewArrayKinds == {"kDouble", "kObject"}

\* The switch on kind: element size, map, header size and hole value.
size_log2(kind) == IF kind = "kDouble" THEN 3 ELSE 3
array_map(kind) ==
  IF kind = "kDouble" THEN "fixed_double_array_map" ELSE "fixed_array_map"
header_size(kind) == 16
the_hole_value(kind) ==
  IF kind = "kDouble" THEN "the_hole_value.value" ELSE "the_hole_value"

\* Every length a WordPtr can hold.
NewArrayLengths == 0..(WordMod - 1)

InitNewArray ==
  /\ code = EmptyBuffer
  /\ pc_offset = 0
  /\ phase = "graph"
  /\ \E length \in NewArrayLengths, kind \in NewArrayKinds,
        allocation_type \in {"kYoung", "kOld"} :
       cfg = [length |-> length, kind |-> kind, allocation_type |-> allocation_type]
  /\ safepoints = <<>>
  /\ tagged_slots = <<>>
  /\ ool_spill = -1
  /\ calls = <<>>
  /\ pc = "entry"
  /\ reg = [index |-> 0, array |-> "none", result |-> "none"]
  /\ mem = [a \in {} |-> 0]
  /\ status = "run"

\* A block of the graph runs: next block, graph values, heap and effects.
Block(at, to, r, h, effects) ==
  /\ status = "run"
  /\ pc = at
  /\ pc' = to
  /\ reg' = r
  /\ mem' = h
  /\ calls' = calls \o effects
  /\ UNCHANGED <<code, pc_offset, phase, cfg, safepoints, tagged_slots,
                 ool_spill, status>>

\* StoreField / StoreElement on the heap h: a header field has index 0.
Store(h, object, field, i, value) ==
  [a \in DOMAIN h \cup {<<object, field, i>>} |->
     IF a = <<object, field, i>> THEN value ELSE h[a]]

\* GOTO_IF(WordPtrEqual(length, 0), done, empty_fixed_array)
GotoIfEmpty ==
  IF WordPtrEqual(cfg.length, 0)
  THEN Block("entry", "done", [reg EXCEPT !.result = "empty_fixed_array"], mem, <<>>)
  ELSE Block("entry", "allocate", reg, mem, <<>>)

\* size = (length << size_log2) + header_size; Allocate; the two header
\* fields; GOTO(loop, 0).
AllocateArray ==
  LET size == WordPtrAdd(WordPtrShiftLeft(cfg.length, size_log2(cfg.kind)),
                         header_size(cfg.kind))
      array == "array"
      h1 == Store(mem, array, "map", 0, array_map(cfg.kind))
      h2 == Store(h1, array, "length", 0, SmiTag(cfg.length))
  IN Block("allocate", "loop", [reg EXCEPT !.array = array, !.index = 0], h2,
           <<[op |-> "Allocate", size |-> size, type |-> cfg.allocation_type],
             [op |-> "StoreField", field |-> "map"],
             [op |-> "StoreField", field |-> "length"]>>)

\* As LoopHeader, with the loop left one index later.
LoopHeader_Inclusive ==
  IF UintPtrLessThanOrEqual(reg.index, cfg.length)
  THEN Block("loop", "body", reg, mem, <<>>)
  ELSE Block("loop", "done", [reg EXCEPT !.result = reg.array], mem, <<>>)

\* BIND(loop, index); GOTO_IF_NOT_UNLIKELY(index < length, done, array)
LoopHeader ==
  IF UintPtrLessThan(reg.index, cfg.length)
  THEN Block("loop", "body", reg, mem, <<>>)
  ELSE Block("loop", "done", [reg EXCEPT !.result = reg.array], mem, <<>>)

\* StoreElement(array, access, index, the_hole_value); GOTO(loop, index + 1)
LoopBody ==
  Block("body", "loop", [reg EXCEPT !.index = WordPtrAdd(reg.index, 1)],
        Store(mem, reg.array, "element", reg.index, the_hole_value(cfg.kind)),
        <<[op |-> "StoreElement", index |-> reg.index,
           value |-> the_hole_value(cfg.kind)]>>)

\* BIND(done, result); return result
ReturnResult ==
  /\ status = "run"
  /\ pc = "done"
  /\ status' = "done"
  /\ UNCHANGED <<code, pc_offset, phase, cfg, safepoints, tagged_slots,
                 ool_spill, calls, pc, reg, mem>>

NextNewArray ==
  \/ GotoIfEmpty
  \/ AllocateArray
  \/ LoopHeader
  \/ LoopBody
  \/ ReturnResult

SpecNewArray == InitNewArray /\ [][NextNewArray]_vars

\* The graph is executed to its end.
FairNewArray == SpecNewArray /\ WF_vars(NextNewArray)

NextSimd ==
  \/ emit_i64x2_extmul_low_i32x4_s
  \/ emit_i64x2_extmul_low_i32x4_u
  \/ emit_i64x2_extmul_high_i32x4_s
  \/ emit_i64x2_extmul_high_i32x4_u
  \/ emit_i32x4_extmul_low_i16x8_s
  \/ emit_i32x4_extmul_low_i16x8_u
  \/ emit_i32x4_extmul_high_i16x8_s
  \/ emit_i32x4_extmul_high_i16x8_u
  \/ emit_i16x8_extmul_low_i8x16_s
  \/ emit_i16x8_extmul_low_i8x16_u
  \/ emit_i16x8_extmul_high_i8x16_s
  \/ emit_i16x8_extmul_high_i8x16_u
  \/ emit_i8x16_rounding_average_u
  \/ emit_i16x8_rounding_average_u
  \/ emit_f32x4_min
  \/ emit_f32x4_max
  \/ emit_i32x4_sconvert_f32x4
  \/ emit_i32x4_uconvert_f32x4
  \/ emit_i32x4_trunc_sat_f64x2_s_zero
  \/ emit_i32x4_trunc_sat_f64x2_u_zero
  \/ emit_i16x8_dot_i8x16_i7x16_s
  \/ emit_i32x4_dot_i8x16_i7x16_add_s
  \/ emit_f32x4_qfma
  \/ emit_f32x4_qfms
  \/ emit_f64x2_qfma
  \/ emit_f64x2_qfms
  \/ emit_v128_anytrue
  \/ emit_i8x16_alltrue
  \/ emit_i16x8_alltrue
  \/ emit_i32x4_alltrue
  \/ emit_i64x2_alltrue
  \/ emit_f32x4_pmin
  \/ emit_f32x4_pmax
  \/ emit_f64x2_pmin
  \/ emit_f64x2_pmax
  \/ emit_i8x16_bitmask
  \/ emit_i16x8_bitmask
  \/ emit_i32x4_bitmask
  \/ emit_i64x2_bitmask
  \/ RunSimd
  \/ StepSimd

SpecSimd == InitOneSimd /\ [][NextSimd]_vars

-----------------------------------------------------------------------------
(* Claims about the one-opcode SIMD lowerings (checked under SpecSimd).     *)

\* The lowering call whose code has run.
SimdCall == calls[1]
SimdDone(names) == status = "done" /\ Len(calls) = 1 /\ SimdCall.name \in names
\* The vector a source register of the call held on entry.
SimdOperand(src) == IF src = F(1) THEN cfg.in.v1 ELSE cfg.in.v2

\* Signed value of a one-byte lane.
Int8Of(b) == IF b[1] >= 128 THEN b[1] - 256 ELSE b[1]

\* The full-width product of two lanes: for 8-bit lanes by integer
\* arithmetic, for wider lanes by multiplication of the extended lanes.
WideProduct(a, b, signed) ==
  IF Len(a) = 1
  THEN IF signed THEN Bytes(Int8Of(a) * Int8Of(b), 2) ELSE Bytes(a[1] * b[1], 2)
  ELSE IF signed
       THEN MulBytes(SignExtend(a, 2 * Len(a)), SignExtend(b, 2 * Len(b)))
       ELSE MulBytes(ZeroExtend(a, 2 * Len(a)), ZeroExtend(b, 2 * Len(b)))

\* The extended-multiply lowerings: input lane bytes, signedness, half.
ExtMuls ==
  [emit_i64x2_extmul_low_i32x4_s |-> [w |-> 4, signed |-> TRUE, high |-> FALSE],
   emit_i64x2_extmul_low_i32x4_u |-> [w |-> 4, signed |-> FALSE, high |-> FALSE],
   emit_i64x2_extmul_high_i32x4_s |-> [w |-> 4, signed |-> TRUE, high |-> TRUE],
   emit_i64x2_extmul_high_i32x4_u |-> [w |-> 4, signed |-> FALSE, high |-> TRUE],
   emit_i32x4_extmul_low_i16x8_s |-> [w |-> 2, signed |-> TRUE, high |-> FALSE],
   emit_i32x4_extmul_low_i16x8_u |-> [w |-> 2, signed |-> FALSE, high |-> FALSE],
   emit_i32x4_extmul_high_i16x8_s |-> [w |-> 2, signed |-> TRUE, high |-> TRUE],
   emit_i32x4_extmul_high_i16x8_u |-> [w |-> 2, signed |-> FALSE, high |-> TRUE],
   emit_i16x8_extmul_low_i8x16_s |-> [w |-> 1, signed |-> TRUE, high |-> FALSE],
   emit_i16x8_extmul_low_i8x16_u |-> [w |-> 1, signed |-> FALSE, high |-> FALSE],
   emit_i16x8_extmul_high_i8x16_s |-> [w |-> 1, signed |-> TRUE, high |-> TRUE],
   emit_i16x8_extmul_high_i8x16_u |-> [w |-> 1, signed |-> FALSE, high |-> TRUE]]

\* C13: for every pair of input vectors and each extended-multiply family,
\* signed and unsigned, result lane k of extmul_low is the full-width
\* product of input lanes k and result lane k of extmul_high the full-width
\* product of input lanes n/2 + k (n input lanes, k in 0..n/2-1), so that
\* low and high together are the products of all corresponding input lanes.
C13_ExtMulLowHigh ==
  SimdDone(DOMAIN ExtMuls) =>
    LET c == SimdCall
        e == ExtMuls[c.name]
        half == (kSimd128Size \div e.w) \div 2
        first == IF e.high THEN half ELSE 0
    IN \A k \in 0..(half - 1) :
         ReadLane(reg, toV(c.a.dst), 2 * e.w, k)
           = WideProduct(LaneOf(SimdOperand(c.a.src1), e.w, first + k),
                         LaneOf(SimdOperand(c.a.src2), e.w, first + k), e.signed)

\* A signed high multiply of <..., -1, 0x64C80007> by itself, in place.
C13_Witness ==
  /\ SimdDone({"emit_i64x2_extmul_high_i32x4_s"})
  /\ SimdCall.a.dst = F(1) /\ SimdCall.a.src2 = F(1)
  /\ LaneOf(cfg.in.v1, 4, 2) = <<254, 255, 255, 255>>
  /\ ReadLane(reg, V(1), 8, 0) = <<4, 0, 0, 0, 0, 0, 0, 0>>

RoundingAverages ==
  [emit_i8x16_rounding_average_u |-> 1, emit_i16x8_rounding_average_u |-> 2]

\* C14: for i8x16 and i16x8 rounding_average_u every result lane is
\* floor((a + b + 1) / 2) of the unsigned lane values a and b, computed
\* without wrap-around: (0, 0) gives 0 and (max, max) gives max.
C14_RoundingAverage ==
  SimdDone(DOMAIN RoundingAverages) =>
    LET c == SimdCall
        w == RoundingAverages[c.name]
    IN \A k \in 0..((kSimd128Size \div w) - 1) :
         LET a == UVal(LaneOf(SimdOperand(c.a.src1), w, k))
             b == UVal(LaneOf(SimdOperand(c.a.src2), w, k))
         IN ReadLane(reg, toV(c.a.dst), w, k) = Bytes((a + b + 1) \div 2, w)

\* All lanes at the maximum on both sides: the result is the maximum.
C14_Witness ==
  /\ SimdDone({"emit_i16x8_rounding_average_u"})
  /\ SimdCall.a.src2 = F(2)
  /\ \A k \in 1..kSimd128Size : cfg.in.v1[k] = 255 /\ cfg.in.v2[k] = 255
  /\ \A k \in 1..kSimd128Size : reg[toV(SimdCall.a.dst)][k] = 255

\* The smaller / larger of two non-NaN floats; -0.0 is below +0.0.
MinOf(a, b) ==
  IF FLess(a, b) THEN a
  ELSE IF FLess(b, a) THEN b
  ELSE IF SignBit(a) = 1 THEN a ELSE b
MaxOf(a, b) ==
  IF FLess(a, b) THEN b
  ELSE IF FLess(b, a) THEN a
  ELSE IF SignBit(a) = 0 THEN a ELSE b

\* C15: for f32x4 min and max every result lane with a NaN operand lane -
\* whichever operand it is, and whether or not dst aliases lhs or rhs -
\* holds the canonical quiet NaN 0x7FC00000; a lane with two non-NaN
\* operands holds their minimum / maximum.
C15_MinMaxCanonicalNaN ==
  SimdDone({"emit_f32x4_min", "emit_f32x4_max"}) =>
    LET c == SimdCall
    IN \A k \in 0..3 :
         LET a == LaneOf(SimdOperand(c.a.src1), 4, k)
             b == LaneOf(SimdOperand(c.a.src2), 4, k)
             res == ReadLane(reg, toV(c.a.dst), 4, k)
         IN IF IsNaN(a) \/ IsNaN(b) THEN res = <<0, 0, 192, 127>>
            ELSE res = IF c.name = "emit_f32x4_min" THEN MinOf(a, b) ELSE MaxOf(a, b)

\* <1.5, NaN, -2.5, +0.0> against <-0.0, 3e9, signalling NaN, -inf>, the
\* result written over the right operand.
C15_Witness ==
  /\ SimdDone({"emit_f32x4_min"})
  /\ SimdCall.a.dst = F(2) /\ SimdCall.a.src2 = F(2)
  /\ LaneOf(cfg.in.v1, 4, 1) = <<0, 0, 192, 127>>
  /\ LaneOf(cfg.in.v2, 4, 2) = <<1, 0, 128, 127>>
  /\ reg[V(2)] = <<0, 0, 0, 128>> \o <<0, 0, 192, 127>> \o <<0, 0, 192, 127>>
                   \o <<0, 0, 128, 255>>

\* The truncating conversions: source lane bytes, signedness.
TruncConversions ==
  [emit_i32x4_sconvert_f32x4 |-> [w |-> 4, signed |-> TRUE],
   emit_i32x4_uconvert_f32x4 |-> [w |-> 4, signed |-> FALSE],
   emit_i32x4_trunc_sat_f64x2_s_zero |-> [w |-> 8, signed |-> TRUE],
   emit_i32x4_trunc_sat_f64x2_u_zero |-> [w |-> 8, signed |-> FALSE]]

\* Every result lane that has a source lane is 0 for a NaN source lane and
\* the round-toward-zero conversion of the source lane otherwise.
TruncatedLanes ==
  LET c == SimdCall
      t == TruncConversions[c.name]
  IN \A k \in 0..((kSimd128Size \div t.w) - 1) :
       LET s == LaneOf(SimdOperand(c.a.src1), t.w, k)
       IN ReadLane(reg, toV(c.a.dst), 4, k)
            = IF IsNaN(s) THEN Bytes(0, 4)
              ELSE IF t.signed THEN TruncS32(s) ELSE TruncU32(s)

\* C16: for the four truncating float-to-int lane conversions every result
\* lane whose source lane is NaN is 0 and every other result lane is the
\* round-toward-zero conversion of its source lane, for every assignment of
\* registers, dst being src included.
C16_TruncatingConversions ==
  SimdDone(DOMAIN TruncConversions) => TruncatedLanes

\* The same with dst and src in different registers.
C16_DistinctRegisters ==
  (SimdDone(DOMAIN TruncConversions) /\ SimdCall.a.dst # SimdCall.a.src1)
    => TruncatedLanes

\* i32x4_sconvert_f32x4 of <1.5, NaN, -2.5, +0.0> in place: all lanes 0.
C16_InPlaceZero ==
  /\ SimdDone({"emit_i32x4_sconvert_f32x4"})
  /\ SimdCall.a.dst = F(1)
  /\ LaneOf(cfg.in.v1, 4, 0) = <<0, 0, 192, 63>>
  /\ reg[V(1)] = [k \in 1..kSimd128Size |-> 0]

\* The lowerings that bail out.
BailingLowerings ==
  {"emit_i16x8_dot_i8x16_i7x16_s", "emit_i32x4_dot_i8x16_i7x16_add_s",
   "emit_f32x4_qfma", "emit_f32x4_qfms", "emit_f64x2_qfma", "emit_f64x2_qfms"}

\* C17: whatever registers they are handed, the lowerings of
\* i16x8_dot_i8x16_i7x16_s, i32x4_dot_i8x16_i7x16_add_s, f32x4_qfma,
\* f32x4_qfms, f64x2_qfma and f64x2_qfms call bailout exactly once and leave
\* the code buffer as it was: no instruction is emitted.
C17_BailoutEmitsNothing ==
  /\ \A k \in DOMAIN calls :
       calls[k].name \in BailingLowerings =>
         /\ Len(cfg.bailouts) = 1
         /\ calls[k].to = calls[k].from
         /\ pc_offset = calls[k].from
         /\ code = EmptyBuffer
  /\ cfg.bailouts # <<>> =>
       \E k \in DOMAIN calls : calls[k].name \in BailingLowerings

\* A fused multiply-add was asked for with dst aliasing the first source
\* and the bailout is recorded.
C17_Witness ==
  /\ Len(calls) = 1
  /\ SimdCall.name = "emit_f32x4_qfma"
  /\ SimdCall.a.dst = SimdCall.a.src1
  /\ phase = "bailed"
  /\ Len(cfg.bailouts) = 1

\* The all_true lowerings: lane bytes.
AllTrues ==
  [emit_i8x16_alltrue |-> 1, emit_i16x8_alltrue |-> 2,
   emit_i32x4_alltrue |-> 4, emit_i64x2_alltrue |-> 8]

\* Every w-byte lane of the vector x has a nonzero byte.
AllLanesNonzero(x, w) ==
  \A i \in 0..(kSimd128Size \div w - 1) : \E k \in 1..w : x[i * w + k] # 0

BoolBytes(t) == Bytes(IF t THEN 1 ELSE 0, kXRegBytes)

\* C18: once the code of v128_anytrue has run, dst holds 1 if some lane of
\* src is nonzero and 0 otherwise; once the code of iNxM_alltrue has run, dst
\* holds 1 if every lane of src is nonzero and 0 if some lane is zero.  In
\* both cases the whole register is exactly 0 or 1.
C18_AnyTrueAllTrue ==
  /\ SimdDone({"emit_v128_anytrue"}) =>
       reg[SimdCall.a.dst] =
         BoolBytes(\E k \in 1..kSimd128Size : SimdOperand(SimdCall.a.src1)[k] # 0)
  /\ SimdDone(DOMAIN AllTrues) =>
       reg[SimdCall.a.dst] =
         BoolBytes(AllLanesNonzero(SimdOperand(SimdCall.a.src1),
                                   AllTrues[SimdCall.name]))

\* i16x8_alltrue has answered 1 for a vector with zero bytes but no zero
\* 16-bit lane, and the code ran to its end.
C18_Witness ==
  /\ SimdDone({"emit_i16x8_alltrue"})
  /\ \E k \in 1..kSimd128Size : SimdOperand(SimdCall.a.src1)[k] = 0
  /\ reg[SimdCall.a.dst] = Bytes(1, kXRegBytes)

\* The pseudo-min/max lowerings: lane bytes, and whether it is a minimum.
PMinMaxes ==
  [emit_f32x4_pmin |-> [w |-> 4, min |-> TRUE],
   emit_f32x4_pmax |-> [w |-> 4, min |-> FALSE],
   emit_f64x2_pmin |-> [w |-> 8, min |-> TRUE],
   emit_f64x2_pmax |-> [w |-> 8, min |-> FALSE]]

\* C19: for f32x4 / f64x2 pmin and pmax every result lane is the rhs lane if
\* rhs < lhs (pmin), respectively lhs < rhs (pmax), and the lhs lane
\* otherwise; whenever either operand lane is NaN the result lane is the lhs
\* lane, bit for bit, with no canonicalisation.
C19_PseudoMinMax ==
  SimdDone(DOMAIN PMinMaxes) =>
    LET c == SimdCall
        p == PMinMaxes[c.name]
    IN \A k \in 0..(kSimd128Size \div p.w - 1) :
         LET lhs == LaneOf(SimdOperand(c.a.src1), p.w, k)
             rhs == LaneOf(SimdOperand(c.a.src2), p.w, k)
             res == ReadLane(reg, toV(c.a.dst), p.w, k)
         IN /\ res = IF (IF p.min THEN FLess(rhs, lhs) ELSE FLess(lhs, rhs))
                     THEN rhs ELSE lhs
            /\ (IsNaN(lhs) \/ IsNaN(rhs)) => res = lhs

\* pmin of <1.5, NaN, -2.5, +0.0> and <-0.0, 3e9, signalling NaN, -inf>
\* written over the right operand: the NaN of lhs and the -2.5 facing a NaN
\* are kept, the smaller rhs lanes are taken.
C19_Witness ==
  /\ SimdDone({"emit_f32x4_pmin"})
  /\ SimdCall.a.dst = F(2) /\ SimdCall.a.src2 = F(2)
  /\ LaneOf(cfg.in.v1, 4, 1) = <<0, 0, 192, 127>>
  /\ LaneOf(cfg.in.v2, 4, 2) = <<1, 0, 128, 127>>
  /\ reg[V(2)] = <<0, 0, 0, 128>> \o <<0, 0, 192, 127>> \o <<0, 0, 32, 192>>
                   \o <<0, 0, 128, 255>>

-----------------------------------------------------------------------------
(* MacroAssembler::Check and Abort with hard abort enabled, as the ia32    *)
(* unit tests and LiftoffAssembler::AssertUnreachable use them.  The       *)
(* buffer is addressed in instruction slots of kInstrSize.                 *)

eax == <<"eax", 0>>
esp == <<"esp", 0>>
eflags == <<"eflags", 0>>
\* What the process has written to its error stream.
stderr == <<"stderr", 0>>

\* AbortReason values and GetAbortReason(): the message of a reason.
AbortReasons == {"kNoReason", "kUnexpectedReturnFromWasmTrap"}
GetAbortReason(reason) ==
  IF reason = "kNoReason" THEN "no reason"
  ELSE "Unexpectedly returned from a wasm trap"

\* Condition values a Check is given.
Conditions == {"equal", "not_equal", "less", "greater_equal"}

\* The flags cmp(a, b) leaves, and whether a condition holds on them.
Compare(a, b) == [zero |-> a = b, less |-> a < b]
Holds(cc, flags) ==
  CASE cc = "equal" -> flags.zero
    [] cc = "not_equal" -> ~flags.zero
    [] cc = "less" -> flags.less
    [] cc = "greater_equal" -> ~flags.less

mov(dst, imm) == Ins("mov", dst, no_reg, no_reg, imm, "")
\* cmp(reg, Operand(base, disp))
cmp(rs, base, disp) == Ins("cmp", no_reg, rs, base, disp, "")
\* j(cc, &L) with L bound `skip` instructions after the jump.
j(cc, skip) == Ins("j", no_reg, no_reg, no_reg, (skip + 1) * kInstrSize, cc)
ret(imm) == Ins("ret", no_reg, no_reg, no_reg, imm, "")
\* CallCFunction(ExternalReference::abort_with_reason(), 1) with its argument.
CallAbortWithReason(reason) ==
  Ins("abort_with_reason", no_reg, no_reg, no_reg, 0, reason)

\* MacroAssembler::Abort(reason) when should_abort_hard(): the reason is
\* handed to abort_with_reason, which does not return.
Abort(reason) == <<CallAbortWithReason(reason)>>

\* Mutant: the jump over the abort is left out.
Check_NoJump(cc, reason) == Abort(reason)

\* MacroAssembler::Check(cc, reason): Label L; j(cc, &L); Abort(reason);
\* bind(&L).
Check(cc, reason) == <<j(cc, Len(Abort(reason)))>> \o Abort(reason)

\* The machine after executing instruction i at m.pc.
ExecIa32(i, m) ==
  LET next == m.pc + kInstrSize
      r == m.reg
  IN CASE i.op = "mov" -> [m EXCEPT !.pc = next, !.reg = [r EXCEPT ![i.rd] = i.imm]]
       [] i.op = "cmp" ->
            [m EXCEPT !.pc = next,
                      !.reg = [r EXCEPT ![eflags] =
                                 Compare(r[i.rs1], m.mem[r[i.rs2] + i.imm])]]
       [] i.op = "j" ->
            [m EXCEPT !.pc = IF Holds(i.cc, r[eflags]) THEN m.pc + i.imm ELSE next]
       [] i.op = "abort_with_reason" ->
            [m EXCEPT !.status = "fatal",
                      !.reg = [r EXCEPT ![stderr] = "abort: " \o GetAbortReason(i.cc)]]
       [] i.op = "ret" -> [m EXCEPT !.status = "done"]

\* The value TestCheck compares its parameter with.
kCheckedValue == 17
\* Operand(esp, 4): where the first parameter lies on entry.
kFirstParameterOffset == 4
\* Parameters the generated function is called with.
CheckParams == {0, 16, 17, 18}

InitCheck ==
  /\ code = EmptyBuffer
  /\ pc_offset = 0
  /\ phase = "lower"
  /\ \E param \in CheckParams, cc \in Conditions, reason \in AbortReasons,
        debug_code \in BOOLEAN :
       cfg = [param |-> param, cond |-> cc, reason |-> reason,
              abort_hard |-> TRUE, debug_code |-> debug_code]
  /\ safepoints = <<>>
  /\ tagged_slots = <<>>
  /\ ool_spill = -1
  /\ calls = <<>>
  /\ pc = 0
  /\ reg = [q \in {eax, esp, eflags, stderr} |->
              CASE q = eflags -> Compare(0, 0)
                [] q = stderr -> ""
                [] OTHER -> 0]
  /\ mem = [a \in {kFirstParameterOffset} |-> cfg.param]
  /\ status = "idle"

\* A test body or a lowering assembles seq.
Assemble(name, seq) ==
  /\ status = "idle"
  /\ code' = Place(code, pc_offset, seq)
  /\ pc_offset' = pc_offset + kInstrSize * Len(seq)
  /\ calls' = Append(calls, [name |-> name, from |-> pc_offset,
                             to |-> pc_offset + kInstrSize * Len(seq)])
  /\ phase' = "emitted"
  /\ UNCHANGED <<cfg, safepoints, tagged_slots, ool_spill, machine>>

TestHardAbort ==
  /\ phase = "lower"
  /\ cfg.abort_hard
  /\ Assemble("TestHardAbort", Abort(cfg.reason))

TestCheck ==
  /\ phase = "lower"
  /\ cfg.abort_hard
  /\ Assemble("TestCheck",
              <<mov(eax, kCheckedValue), cmp(eax, esp, kFirstParameterOffset)>>
                \o Check(cfg.cond, cfg.reason) \o <<ret(0)>>)

AssertUnreachable ==
  /\ phase = "lower"
  /\ cfg.abort_hard
  /\ Assemble("AssertUnreachable",
              IF cfg.debug_code THEN Abort(cfg.reason) ELSE <<>>)

\* f.Call(param): the generated code is entered.
CallGenerated ==
  /\ phase = "emitted"
  /\ status = "idle"
  /\ status' = "run"
  /\ pc' = 0
  /\ UNCHANGED <<code, pc_offset, phase, cfg, safepoints, tagged_slots,
                 ool_spill, calls, reg, mem>>

\* One instruction of the generated code runs; code that runs off its end
\* goes on with what follows it.
StepGenerated ==
  /\ status = "run"
  /\ IF pc = pc_offset
     THEN /\ status' = "done"
          /\ UNCHANGED <<pc, reg, mem>>
     ELSE /\ pc \in DOMAIN code
          /\ LET m == ExecIa32(code[pc], [pc |-> pc, reg |-> reg, mem |-> mem,
                                          status |-> status])
             IN /\ pc' = m.pc
                /\ reg' = m.reg
                /\ mem' = m.mem
                /\ status' = m.status
  /\ UNCHANGED <<code, pc_offset, phase, cfg, safepoints, tagged_slots,
                 ool_spill, calls>>

NextCheck ==
  \/ TestHardAbort
  \/ TestCheck
  \/ AssertUnreachable
  \/ CallGenerated
  \/ StepGenerated

SpecCheck == InitCheck /\ [][NextCheck]_vars

\* The generated code has come to its end: returned, or the process died.
Ended(name) ==
  /\ Len(calls) = 1
  /\ calls[1].name = name
  /\ status \in {"done", "fatal"}

\* The process died with the message of the reason.
AbortedWith(reason) ==
  /\ status = "fatal"
  /\ reg[stderr] = "abort: " \o GetAbortReason(reason)

\* C20: with hard abort enabled, the code of Check(cond, reason) goes on
\* with the instruction after it whenever cond holds at run time - the
\* function returns and nothing is reported - and aborts the process with
\* the message of the reason whenever cond does not hold; the code of an
\* unconditional Abort(reason) always aborts.
C20_CheckAndAbort ==
  /\ Ended("TestCheck") =>
       IF Holds(cfg.cond, Compare(kCheckedValue, cfg.param))
       THEN /\ status = "done"
            /\ pc = calls[1].to - kInstrSize
            /\ reg[stderr] = ""
       ELSE AbortedWith(cfg.reason)
  /\ Ended("TestHardAbort") => AbortedWith(cfg.reason)
  /\ (Ended("AssertUnreachable") /\ cfg.debug_code) => AbortedWith(cfg.reason)
  /\ (status = "run" /\ Len(calls) = 1 /\ calls[1].name = "TestCheck"
        /\ pc = 2 * kInstrSize + kInstrSize * Len(Check(cfg.cond, cfg.reason))) =>
       Holds(cfg.cond, Compare(kCheckedValue, cfg.param))

\* The test's own case: Check(not_equal, kNoReason) called with 17 has died
\* with "abort: no reason".
C20_Witness ==
  /\ Ended("TestCheck")
  /\ cfg.cond = "not_equal" /\ cfg.reason = "kNoReason" /\ cfg.param = 17
  /\ status = "fatal"
  /\ reg[stderr] = "abort: no reason"

\* The test's other case: called with 18 the function has returned.
C20_Returned ==
  /\ Ended("TestCheck")
  /\ cfg.cond = "not_equal" /\ cfg.param = 18
  /\ status = "done"

-----------------------------------------------------------------------------
(* Further claims about the stack frame manager (checked under SpecFrame). *)

\* The buffer offsets the step at hand writes an instruction to.
WrittenOffsets ==
  {o \in DOMAIN code' : o \notin DOMAIN code \/ code'[o] # code[o]}

\* The offsets of the placeholder PrepareStackFrame reserved.
PlaceholderOffsets ==
  {cfg.offset + kInstrSize * (k - 1) : k \in 1..Len(Placeholder)}

\* C21: for every frame size, what PatchPrepareStackFrame writes at the
\* prologue offset (the sp adjustment of a small frame, the pc-relative jump
\* of a large frame) stays within the three reserved placeholder slots: every
\* other offset it writes lies in the out-of-line code behind the body, so no
\* instruction following the placeholder is overwritten.
C21_PatchWithinPlaceholder ==
  [][phase = "patch" =>
       \A o \in WrittenOffsets : o \in PlaceholderOffsets \/ o >= pc_offset]_vars

\* A frame of 4088 bytes has been patched as two addi; the third reserved
\* slot still holds its nop.
C21_Witness ==
  /\ Patched
  /\ FrameSize(cfg.total) = 4 * KB - kSystemPointerSize
  /\ code[cfg.offset].op = "addi" /\ code[cfg.offset].imm # 0
  /\ code[cfg.offset + kInstrSize].op = "addi"
  /\ code[cfg.offset + 2 * kInstrSize] = nop

\* The frame is at least as large as the configured stack.
FrameExceedsStack == FrameSize(cfg.total) >= cfg.stack_size * 1024

\* The offsets of the out-of-line code.
OolOffsets == {o \in DOMAIN code : o > cfg.exit}

\* The first instruction of the out-of-line code.
OolStart == CHOOSE o \in OolOffsets : \A q \in OolOffsets : o <= q

\* C22: in the large-frame path, when the frame size is greater than or
\* equal to stack_size * 1024, the out-of-line code holds no limit
\* comparison and every execution of it calls the stack-overflow trap; the
\* trap does not return, so the frame allocation behind the continuation
\* label never runs and sp keeps its value.  Exactly one safepoint, with no
\* tagged slot, is defined right after the trap call in the large-frame path,
\* and none in the small-frame path.
C22_UnconditionalTrap ==
  /\ (LargeFrame /\ FrameExceedsStack) =>
       /\ \A o \in OolOffsets : code[o].op # "Branch"
       /\ code[OolStart].op = "Call"
       /\ phase = "run" =>
            /\ status # "done"
            /\ reg[sp] = cfg.sp0
            /\ (pc \in OolOffsets => code[pc].op = "Call")
  /\ Patched =>
       IF LargeFrame
       THEN /\ Len(safepoints) = 1
            /\ safepoints[1] - kInstrSize \in OolOffsets
            /\ code[safepoints[1] - kInstrSize].op = "Call"
            /\ \A o \in OolOffsets : code[o].op = "Call" => o = safepoints[1] - kInstrSize
            /\ tagged_slots = <<>>
       ELSE safepoints = <<>>

\* A frame as large as the stack: the out-of-line code has called the trap,
\* the one safepoint is defined.
C22_Witness ==
  /\ phase = "run" /\ LargeFrame /\ FrameExceedsStack
  /\ FrameSize(cfg.total) = cfg.stack_size * 1024
  /\ status = "trap"
  /\ Len(safepoints) = 1
  /\ reg[sp] = cfg.sp0

-----------------------------------------------------------------------------
(* A further claim about PrepareTailCall (checked under SpecTail).         *)

\* C23: after the code of PrepareTailCall(N, delta) has run, ra holds the
\* return address that was stored at old fp + one slot, fp holds the caller
\* frame pointer that was stored at old fp, and sp is old fp + (2 - delta)
\* slots, the address of the first relocated callee stack parameter.
C23_TailCallRegisters ==
  (phase = "run" /\ status = "done") =>
    /\ reg[ra] = Mem0(FrameBase + kSystemPointerSize)
    /\ reg[fp] = Mem0(FrameBase)
    /\ reg[sp] = FrameBase + (2 - cfg.stack_param_delta) * kSystemPointerSize
    /\ cfg.num_callee_stack_params > 0 => mem[reg[sp]] = TailSource(2)

\* Three parameters moved for a caller that had one: the code has run.
C23_Witness ==
  /\ phase = "run" /\ status = "done"
  /\ cfg.num_callee_stack_params = 3 /\ cfg.stack_param_delta = 2
  /\ reg[sp] = FrameBase
  /\ reg[ra] = Mem0(FrameBase + kSystemPointerSize)

-----------------------------------------------------------------------------
(* Further claims about the one-opcode SIMD lowerings (under SpecSimd).    *)

\* The vector registers an instruction writes and reads.
VecWrites(i) == IF i.rd[1] = "v" THEN {i.rd} ELSE {}
VecReads(i) == {q \in {i.rs1, i.rs2} : q[1] = "v"}

\* The instructions a lowering call emitted, in order.
EmittedBy(c) ==
  [k \in 1..((c.to - c.from) \div kInstrSize) |-> code[c.from + kInstrSize * (k - 1)]]

\* The vector of full-width products an extended multiply is to leave: a
\* function of the two operand vectors alone.
ExtMulValue(name, x, y) ==
  LET e == ExtMuls[name]
      first == IF e.high THEN (kSimd128Size \div e.w) \div 2 ELSE 0
  IN [b \in 1..kSimd128Size |->
        LET k == (b - 1) \div (2 * e.w)
        IN WideProduct(LaneOf(x, e.w, first + k), LaneOf(y, e.w, first + k),
                       e.signed)[((b - 1) % (2 * e.w)) + 1]]

\* C24: for every extended-multiply lowering (low and high, all three
\* widths, signed and unsigned) dst ends with one and the same value - the
\* products of the operands as they were on entry - whether dst is distinct
\* from both sources or is src1 or src2; the emitted code never reads a
\* source register after an instruction that wrote it, the widening multiply
\* never writes a register it reads, and a source that is not dst keeps its
\* value.
C24_ExtMulAliasing ==
  (Len(calls) = 1 /\ SimdCall.name \in DOMAIN ExtMuls) =>
    LET c == SimdCall
        seq == EmittedBy(c)
        sources == {toV(c.a.src1), toV(c.a.src2)}
    IN /\ status # "illegal"
       /\ \A early \in DOMAIN seq, late \in DOMAIN seq :
            (early < late /\ VecWrites(seq[early]) \cap sources # {}) =>
              VecReads(seq[late]) \cap VecWrites(seq[early]) \cap sources = {}
       /\ \A k \in DOMAIN seq :
            seq[k].op \in {"vwmul_vv", "vwmulu_vv"} =>
              VecWrites(seq[k]) \cap VecReads(seq[k]) = {}
       /\ status = "done" =>
            /\ reg[toV(c.a.dst)] =
                 ExtMulValue(c.name, SimdOperand(c.a.src1), SimdOperand(c.a.src2))
            /\ \A s \in {c.a.src1, c.a.src2} :
                 s # c.a.dst => reg[toV(s)] = SimdOperand(s)

\* An unsigned low multiply of 16-bit lanes written over its second source:
\* the product went through the scratch register and was copied back.
C24_Witness ==
  /\ SimdDone({"emit_i32x4_extmul_low_i16x8_u"})
  /\ SimdCall.a.dst = F(2) /\ SimdCall.a.src2 = F(2) /\ SimdCall.a.src1 = F(1)
  /\ cfg.in.v1 # cfg.in.v2
  /\ reg[V(2)] = reg[kSimd128ScratchReg3]
  /\ reg[V(2)] # cfg.in.v2
  /\ reg[V(1)] = cfg.in.v1

-----------------------------------------------------------------------------
(* Claims about i8x16.popcnt (checked under SpecPopcnt).                   *)

\* The popcnt call of the function, and whether its code is running or has run.
PopcntCall == calls[Len(calls)]
PopcntLowered == calls # <<>> /\ PopcntCall.name = "emit_i8x16_popcnt"
PopcntAlone == PopcntLowered /\ Len(calls) = 1

\* Number of set bits of a byte.
PopCount(byte) ==
  LET s == BitsOf(<<byte>>)
      RECURSIVE Sum(_)
      Sum(k) == IF k = 0 THEN 0 ELSE s[k] + Sum(k - 1)
  IN Sum(8)

\* C25: the loop emitted by emit_i8x16_popcnt terminates for every 128-bit
\* input, after at most 8 iterations of its body: the head of the loop is
\* never executed a ninth time.
C25_PopcntAtMost8Iterations ==
  PopcntLowered => cfg.iterations <= 8

\* With popcnt the only opcode of the function, kSimd128RegZero still holds
\* zero and the loop is left after at most 8 iterations.
C25_AloneAtMost8Iterations ==
  PopcntAlone => cfg.iterations <= 8

\* After an i8x16.rounding_average_u, whose widening sum left its upper half
\* in kSimd128RegZero, the head of the popcnt loop is executed a ninth time.
C25_NinthIteration ==
  /\ Len(calls) = 2
  /\ calls[1].name = "emit_i8x16_rounding_average_u"
  /\ PopcntLowered
  /\ reg[kSimd128RegZero] # Bytes(0, kSimd128Size)
  /\ cfg.iterations = MaxIterations

\* C26: when the code of emit_i8x16_popcnt finishes (popcnt being the only
\* opcode, kSimd128RegZero holding zero), every one of the 16 byte lanes of
\* dst is the number of set bits of the same lane of src - also for inputs
\* whose lanes 0 and 1 are zero while other lanes are not - and no lane of
\* the working copy in kSimd128ScratchReg is nonzero when the loop is left.
C26_PopcntLanes ==
  (PopcntAlone /\ status = "done") =>
    LET src == SimdOperand(PopcntCall.a.src1)
    IN /\ \A k \in 1..kSimd128Size :
            reg[toV(PopcntCall.a.dst)][k] = PopCount(src[k])
       /\ \A k \in 1..kSimd128Size : reg[kSimd128ScratchReg][k] = 0

\* The lanes 0 and 1 vfirst_m looks at are counted correctly.
C26_FirstTwoLanes ==
  (PopcntAlone /\ status = "done") =>
    \A k \in 1..2 :
      reg[toV(PopcntCall.a.dst)][k] = PopCount(SimdOperand(PopcntCall.a.src1)[k])

\* Lanes 0 and 1 zero, lane 2 all ones: the loop is left after one
\* iteration with lane 2 of dst at 1 and lane 2 of the working copy at 254.
C26_EarlyExit ==
  /\ PopcntAlone /\ status = "done"
  /\ SimdOperand(PopcntCall.a.src1)[1] = 0 /\ SimdOperand(PopcntCall.a.src1)[2] = 0
  /\ SimdOperand(PopcntCall.a.src1)[3] = 255
  /\ cfg.iterations = 1
  /\ reg[toV(PopcntCall.a.dst)][3] = 1
  /\ reg[kSimd128ScratchReg][3] = 254

-----------------------------------------------------------------------------
(* Claims about iNxM.bitmask (checked under SpecSimd).                     *)

\* The bitmask lowerings: lane bytes.
BitMasks ==
  [emit_i8x16_bitmask |-> 1, emit_i16x8_bitmask |-> 2,
   emit_i32x4_bitmask |-> 4, emit_i64x2_bitmask |-> 8]

\* Bit k of the result is the sign of lane k of src, for k below the lane count.
BitmaskLaneBits ==
  LET w == BitMasks[SimdCall.name]
  IN \A k \in 0..(kSimd128Size \div w - 1) :
       BitsOf(reg[SimdCall.a.dst])[k + 1] =
         IF IsNegative(LaneOf(SimdOperand(SimdCall.a.src1), w, k)) THEN 1 ELSE 0

\* C27: for iNxM_bitmask (i8x16, i16x8, i32x4, i64x2), once the code has
\* run, bit k of the general register dst is 1 exactly when lane k of src is
\* negative (k below the lane count), and every bit of dst at a position at
\* or above the lane count is 0.
C27_Bitmask ==
  SimdDone(DOMAIN BitMasks) =>
    /\ BitmaskLaneBits
    /\ \A k \in (kSimd128Size \div BitMasks[SimdCall.name])..(8 * kXRegBytes - 1) :
         BitsOf(reg[SimdCall.a.dst])[k + 1] = 0

\* The bits below the lane count are the lane signs.
C27_LaneBits ==
  SimdDone(DOMAIN BitMasks) => BitmaskLaneBits

\* i64x2.bitmask of the zero vector: the two lane bits are 0, the bits
\* above them are what kSimd128ScratchReg held before, sign-extended.
C27_StaleBits ==
  /\ SimdDone({"emit_i64x2_bitmask"})
  /\ \A k \in 1..kSimd128Size : cfg.in.v1[k] = 0
  /\ reg[SimdCall.a.dst] = <<164, 165, 165, 165, 255, 255, 255, 255>>

-----------------------------------------------------------------------------
(* Claims about the shifts by a register (checked under SpecShift).        *)

\* The shift count rhs held on entry, reduced to the element width.
ShiftAmount == cfg.in.x[1] % ShiftLowerings[SimdCall.name].sew

\* C28: no lowering writes a general register that holds a source operand:
\* after the code of a shift-by-register lowering (iNxM_shl, iNxM_shr_s,
\* iNxM_shr_u) has run, the register rhs holds the value it held before.
C28_RhsPreserved ==
  SimdDone(DOMAIN ShiftLowerings) => reg[SimdCall.a.src2] = cfg.in.x

\* What the code does: rhs is left holding the count reduced to the element
\* width, and each lane of dst is the lane of lhs shifted by that count.
C28_RhsReduced ==
  SimdDone(DOMAIN ShiftLowerings) =>
    LET s == ShiftLowerings[SimdCall.name]
        w == s.sew \div 8
    IN /\ reg[SimdCall.a.src2] = Bytes(ShiftAmount, kXRegBytes)
       /\ \A k \in 0..(kSimd128Size \div w - 1) :
            LaneOf(reg[toV(SimdCall.a.dst)], w, k) =
              LET lane == LaneOf(cfg.in.v1, w, k)
              IN CASE s.op = "vsll_vx" -> ShiftLeft(lane, ShiftAmount)
                   [] s.op = "vsra_vx" -> ShiftRightS(lane, ShiftAmount)
                   [] s.op = "vsrl_vx" -> ShiftRightU(lane, ShiftAmount)

\* i8x16.shl by 9: rhs holds 1 afterwards.
C28_RhsClobbered ==
  /\ SimdDone({"emit_i8x16_shl"})
  /\ cfg.in.x = Bytes(9, kXRegBytes)
  /\ reg[SimdCall.a.src2] = Bytes(1, kXRegBytes)

-----------------------------------------------------------------------------
(* Claims about the NaN detection (checked under SpecNan).                 *)

\* One NaN lowering for the lane kind of the operands was lowered and ran.
NanDone(name) ==
  /\ status = "done"
  /\ Len(calls) = 1
  /\ calls[1].name = name
  /\ calls[1].cond = cfg.in.kind

\* The word the code stored at the address dst holds.
StoredWord == mem[cfg.in.x]
IsZeroWord(b) == \A k \in DOMAIN b : b[k] = 0

\* The vector operand of the emit_s128_set_if_nan call and its lanes.
NanVector == IF code[calls[1].from].rs1 = V(1) THEN cfg.in.v1 ELSE cfg.in.v2
SomeLaneNaN ==
  LET w == IF cfg.in.kind = "kF32" THEN 4 ELSE 8
  IN \E k \in 0..(kSimd128Size \div w - 1) : IsNaN(LaneOf(NanVector, w, k))
ScalarIsNaN ==
  IsNaN(Truncate(cfg.in.f, IF cfg.in.kind = "kF32" THEN 4 ELSE 8))

\* C29: emit_set_if_nan stores a nonzero value to the word at dst exactly
\* when src is NaN, and emit_s128_set_if_nan exactly when some lane of src
\* is NaN; for an input that is not NaN the stored word is zero.
C29_SetIfNan ==
  /\ NanDone("emit_set_if_nan") => (~IsZeroWord(StoredWord) <=> ScalarIsNaN)
  /\ NanDone("emit_s128_set_if_nan") => (~IsZeroWord(StoredWord) <=> SomeLaneNaN)

\* What the code stores: the complement of the 0 / 1 result of feq, that is
\* -1 or -2, never zero.
C29_AlwaysNonzero ==
  (status = "done" /\ Len(calls) = 1) =>
    /\ ~IsZeroWord(StoredWord)
    /\ StoredWord[1] \in {254, 255}
    /\ NanDone("emit_set_if_nan") => (StoredWord[1] = 255 <=> ScalarIsNaN)

\* emit_set_if_nan of 1.5f stores -2.
C29_StoresForNumber ==
  /\ NanDone("emit_set_if_nan")
  /\ cfg.in.f = <<0, 0, 192, 63, 255, 255, 255, 255>>
  /\ StoredWord = <<254, 255, 255, 255, 255, 255, 255, 255>>

\* emit_s128_set_if_nan of <1.5, NaN, -2.5, +0.0> stores -2 as well: the
\* reduction skips the NaN lane.
C29_NaNLaneMissed ==
  /\ NanDone("emit_s128_set_if_nan")
  /\ NanVector = <<0, 0, 192, 63>> \o <<0, 0, 192, 127>> \o <<0, 0, 32, 192>> \o <<0, 0, 0, 0>>
  /\ StoredWord = <<254, 255, 255, 255>>

-----------------------------------------------------------------------------
(* Claims about ReduceNewArray (checked under FairNewArray).               *)

Effects(op) == {k \in DOMAIN calls : calls[k].op = op}
ElementStores(i) == {k \in Effects("StoreElement") : calls[k].index = i}

\* What holds when the graph has returned.
NewArrayResult ==
  IF cfg.length = 0
  THEN /\ reg.result = "empty_fixed_array"
       /\ calls = <<>>
  ELSE /\ reg.result = "array"
       /\ Cardinality(Effects("Allocate")) = 1
       /\ Cardinality(Effects("StoreElement")) = cfg.length
       /\ \A i \in 0..(cfg.length - 1) :
            /\ Cardinality(ElementStores(i)) = 1
            /\ mem[<<"array", "element", i>>] = the_hole_value(cfg.kind)
       /\ \A k \in Effects("StoreElement") : calls[k].index \in 0..(cfg.length - 1)
       /\ mem[<<"array", "length", 0>>] = SmiTag(cfg.length)

\* C30: the graph emitted by ReduceNewArray returns the canonical empty
\* fixed array without allocating when length is 0; for every length > 0
\* its initialisation loop ends after exactly length iterations, stores the
\* hole value to each element index 0..length-1 exactly once and to no other
\* index, and returns the newly allocated array whose length field is
\* SmiTag(length).
C30_NewArray ==
  /\ [](status = "done" => NewArrayResult)
  /\ <>(status = "done")

\* An array of three elements was allocated, filled and returned.
C30_Witness ==
  /\ status = "done"
  /\ cfg.length = 3
  /\ reg.result = "array"
  /\ Cardinality(Effects("StoreElement")) = 3

====
